---- MODULE Spec2Model ----
(***************************************************************************)
(* A model of package caip10 (donutnomad/xchain): CAIP-10 account          *)
(* identifiers, the namespace parser registry, the per-namespace           *)
(* validation and the text / binary / JSON / CBOR / SQL codecs of          *)
(* GenericAccountID.                                                       *)
(*                                                                         *)
(* Go strings and []byte values are byte sequences; both are modelled as   *)
(* sequences over 0..255 (the ASCII code of each character).               *)
(***************************************************************************)
EXTENDS Integers, Sequences, FiniteSets, TLC

\* ------------------------------------------------------------------------
\* Errors (the sentinel an error wraps; NoErr is Go's nil error)
\* ------------------------------------------------------------------------
NoErr == "nil"
ErrInvalidFormat == "ErrInvalidFormat"
ErrInvalidNamespace == "ErrInvalidNamespace"
ErrInvalidReference == "ErrInvalidReference"
ErrInvalidAddress == "ErrInvalidAddress"
ErrEmptyValue == "ErrEmptyValue"
\* fmt.Errorf("caip10: cannot scan type %T into GenericAccountID", src): no sentinel
ErrScanType == "ErrScanType"
\* the error cbor.Unmarshal returns for data that is not a CBOR text string
ErrCBOR == "ErrCBOR"

\* ------------------------------------------------------------------------
\* Characters and the CAIP grammar
\* ------------------------------------------------------------------------
Colon == 58
Quote == 34
Lower == 97..122
Upper == 65..90
Digit == 48..57
EmptyString == <<>>

NamespaceMinLen == 3
NamespaceMaxLen == 8
ReferenceMinLen == 1
ReferenceMaxLen == 32
AddressMinLen == 1
AddressMaxLen == 128

\* regexp ^[class]{lo,hi}$ (Go's $ is the end of the text)
MatchClass(s, class, lo, hi) ==
    /\ Len(s) >= lo
    /\ Len(s) <= hi
    /\ \A k \in 1..Len(s) : s[k] \in class

\* `^[-a-z0-9]{3,8}$`
NamespaceRegex(s) ==
    MatchClass(s, Lower \cup Digit \cup {45}, NamespaceMinLen, NamespaceMaxLen)

\* `^[-_a-zA-Z0-9]{1,32}$`
ReferenceRegex(s) ==
    MatchClass(s, Lower \cup Upper \cup Digit \cup {45, 95}, ReferenceMinLen, ReferenceMaxLen)

\* `^[-.%a-zA-Z0-9]{1,128}$`
AddressRegex(s) ==
    MatchClass(s, Lower \cup Upper \cup Digit \cup {45, 46, 37}, AddressMinLen, AddressMaxLen)

\* The index of the first colon of s at or after position from, Len(s)+1 if none
\* (the scanning loops of SplitCAIP10 and SplitCAIP2).
ScanColon(s, from) ==
    IF \E k \in from..Len(s) : s[k] = Colon
    THEN CHOOSE k \in from..Len(s) :
            s[k] = Colon /\ \A m \in from..(k - 1) : s[m] # Colon
    ELSE Len(s) + 1

SplitResult(e, ns, ref, addr) ==
    [err |-> e, namespace |-> ns, reference |-> ref, address |-> addr]

\* a split that takes the reference up to the last colon
SplitCAIP10Greedy(s) ==
    IF Len(s) = 0
    THEN SplitResult(ErrEmptyValue, EmptyString, EmptyString, EmptyString)
    ELSE LET i == ScanColon(s, 1) IN
         IF i > Len(s) \/ ScanColon(s, i + 1) > Len(s)
         THEN SplitResult(ErrInvalidFormat, EmptyString, EmptyString, EmptyString)
         ELSE LET j == CHOOSE k \in (i + 1)..Len(s) :
                           s[k] = Colon /\ \A m \in (k + 1)..Len(s) : s[m] # Colon
              IN  SplitResult(NoErr, SubSeq(s, 1, i - 1), SubSeq(s, i + 1, j - 1),
                              SubSeq(s, j + 1, Len(s)))

SplitCAIP10(s) ==
    IF Len(s) = 0
    THEN SplitResult(ErrEmptyValue, EmptyString, EmptyString, EmptyString)
    ELSE LET i == ScanColon(s, 1) IN
         IF i > Len(s)
         THEN SplitResult(ErrInvalidFormat, EmptyString, EmptyString, EmptyString)
         ELSE LET j == ScanColon(s, i + 1) IN
              IF j > Len(s)
              THEN SplitResult(ErrInvalidFormat, EmptyString, EmptyString, EmptyString)
              ELSE SplitResult(NoErr, SubSeq(s, 1, i - 1), SubSeq(s, i + 1, j - 1),
                               SubSeq(s, j + 1, Len(s)))

\* ------------------------------------------------------------------------
\* math/big: decimal parsing, formatting and comparison of integers.
\* A big.Int is [neg, mag]: mag is the decimal magnitude without leading
\* zeros (<<48>> for zero), so values beyond any machine width are exact.
\* ------------------------------------------------------------------------
StripZeros(d) ==
    IF \A k \in 1..Len(d) : d[k] = 48
    THEN <<48>>
    ELSE LET f == CHOOSE k \in 1..Len(d) : d[k] # 48 /\ \A m \in 1..(k - 1) : d[m] = 48
         IN  SubSeq(d, f, Len(d))

BigInt(neg, digits) ==
    LET m == StripZeros(digits) IN [neg |-> neg /\ m # <<48>>, mag |-> m]

\* new(big.Int).SetString(s, 10): an optional sign, then one or more decimal
\* digits and nothing else
BigSetString(s) ==
    LET signed == Len(s) >= 1 /\ s[1] \in {43, 45}
        digits == IF signed THEN SubSeq(s, 2, Len(s)) ELSE s
    IN  IF Len(digits) >= 1 /\ \A k \in 1..Len(digits) : digits[k] \in Digit
        THEN [ok |-> TRUE, val |-> BigInt(signed /\ s[1] = 45, digits)]
        ELSE [ok |-> FALSE, val |-> BigInt(FALSE, <<48>>)]

\* (*big.Int).String()
BigString(x) == IF x.neg THEN <<45>> \o x.mag ELSE x.mag

\* the magnitudes a and b compared: -1, 0 or 1
RECURSIVE CmpDigits(_, _, _)
CmpDigits(a, b, k) ==
    IF k > Len(a) THEN 0
    ELSE IF a[k] < b[k] THEN -1
    ELSE IF a[k] > b[k] THEN 1
    ELSE CmpDigits(a, b, k + 1)

CmpMag(a, b) ==
    IF Len(a) < Len(b) THEN -1
    ELSE IF Len(a) > Len(b) THEN 1
    ELSE CmpDigits(a, b, 1)

\* x.Cmp(y)
BigCmp(x, y) ==
    IF x.neg /\ ~y.neg THEN -1
    ELSE IF ~x.neg /\ y.neg THEN 1
    ELSE IF x.neg THEN CmpMag(y.mag, x.mag)
    ELSE CmpMag(x.mag, y.mag)

\* the decimal digits of a natural number
RECURSIVE NatDigits(_)
NatDigits(n) == IF n < 10 THEN <<48 + n>> ELSE Append(NatDigits(n \div 10), 48 + (n % 10))

\* A chain id as the constructors take it: a *big.Int (a [neg, mag] record
\* as above), a *uint256.Int (its decimal digits) or a machine integer of
\* one of the ten Go integer types.
Uint256(digits) == [type |-> "*uint256.Int", digits |-> digits]
MachineInt(type, n) == [type |-> type, n |-> n]
UnsignedTypes == {"uint", "uint8", "uint16", "uint32", "uint64"}
SignedTypes == {"int", "int8", "int16", "int32", "int64"}

\* a *big.Int is returned as it is, v.ToBig(), SetUint64 and SetInt64 are exact
bigIntOrIntToBigInt(num) ==
    IF "mag" \in DOMAIN num THEN num
    ELSE IF num.type = "*uint256.Int" THEN BigInt(FALSE, num.digits)
    ELSE IF num.type \in UnsignedTypes THEN BigInt(FALSE, NatDigits(num.n))
    ELSE BigInt(num.n < 0, NatDigits(IF num.n < 0 THEN -num.n ELSE num.n))

\* 10^32 - 1: thirty-two nines
maxEIP155ChainID == [neg |-> FALSE, mag |-> [k \in 1..32 |-> 57]]

\* ------------------------------------------------------------------------
\* Ethereum addresses (ecommon.Address, a [20]byte): hex decoding as
\* HexToAddress does it and the EIP-55 checksummed form Hex() prints.
\* ------------------------------------------------------------------------
AddressLength == 20

HexVal(c) ==
    IF c \in Digit THEN c - 48
    ELSE IF c \in 97..102 THEN c - 87
    ELSE IF c \in 65..70 THEN c - 55
    ELSE 16

has0xPrefix(s) == Len(s) >= 2 /\ s[1] = 48 /\ s[2] \in {120, 88}

\* hex.DecodeString with its error dropped (Hex2Bytes): the bytes decoded
\* before the first character that is not a hex digit
RECURSIVE Hex2Bytes(_, _)
Hex2Bytes(s, k) ==
    IF k + 1 > Len(s) THEN <<>>
    ELSE IF HexVal(s[k]) > 15 \/ HexVal(s[k + 1]) > 15 THEN <<>>
    ELSE <<HexVal(s[k]) * 16 + HexVal(s[k + 1])>> \o Hex2Bytes(s, k + 2)

FromHex(s) ==
    LET a == IF has0xPrefix(s) THEN SubSeq(s, 3, Len(s)) ELSE s
        b == IF Len(a) % 2 = 1 THEN <<48>> \o a ELSE a
    IN  Hex2Bytes(b, 1)

\* the last 20 bytes of b, left-padded with zero bytes
BytesToAddress(b) ==
    LET c == IF Len(b) > AddressLength
             THEN SubSeq(b, Len(b) - AddressLength + 1, Len(b)) ELSE b
        pad == AddressLength - Len(c)
    IN  [k \in 1..AddressLength |-> IF k <= pad THEN 0 ELSE c[k - pad]]

HexToAddress(s) == BytesToAddress(FromHex(s))

ZeroAddress == [k \in 1..AddressLength |-> 0]

HexDigit(v) == IF v < 10 THEN 48 + v ELSE 87 + v

\* the 40 lower-case hex digits of an address
HexLower(a) ==
    [k \in 1..(2 * AddressLength) |->
        IF k % 2 = 1 THEN HexDigit(a[(k + 1) \div 2] \div 16)
        ELSE HexDigit(a[k \div 2] % 16)]

\* The positions of HexLower(a) whose Keccak-256 nibble exceeds 7 (EIP-55);
\* the hash is tabulated for the addresses with a hex letter that the
\* model's inputs decode to, and no other address is given a value.
checksumPositions(a) ==
    IF \A k \in 1..(2 * AddressLength) : HexLower(a)[k] \in Digit THEN {}
    ELSE CASE a = <<171, 22, 169, 109, 53, 158, 194, 106, 17, 226,
                    194, 179, 216, 248, 184, 148, 45, 91, 252, 219>> -> {8, 13, 21, 29, 36}
           [] a = <<0, 0, 0, 0, 0, 0, 0, 0, 0, 0, 0, 0, 0, 0, 0, 0, 0, 0, 10, 188>> -> {39}

\* (Address).Hex(): "0x" and the checksummed hex digits
AddressHex(a) ==
    LET h == HexLower(a)
        up == checksumPositions(a)
    IN  <<48, 120>> \o [k \in 1..(2 * AddressLength) |->
                          IF k \in up /\ h[k] \in Lower THEN h[k] - 32 ELSE h[k]]

\* ------------------------------------------------------------------------
\* Solana public keys (web3.PublicKey, 32 bytes) and their base58 form
\* ------------------------------------------------------------------------
SolanaAddressLength == 32

\* "123456789ABCDEFGHJKLMNPQRSTUVWXYZabcdefghijkmnopqrstuvwxyz"
Base58Alphabet ==
    <<49, 50, 51, 52, 53, 54, 55, 56, 57, 65, 66, 67, 68, 69, 70, 71,
      72, 74, 75, 76, 77, 78, 80, 81, 82, 83, 84, 85, 86, 87, 88, 89,
      90, 97, 98, 99, 100, 101, 102, 103, 104, 105, 106, 107, 109, 110, 111, 112,
      113, 114, 115, 116, 117, 118, 119, 120, 121, 122>>
Base58Set == {Base58Alphabet[k] : k \in 1..Len(Base58Alphabet)}

Base58Digit(c) == (CHOOSE k \in 1..Len(Base58Alphabet) : Base58Alphabet[k] = c) - 1

\* n * m + carry for a little-endian base-256 number n
RECURSIVE MulAdd(_, _, _, _)
MulAdd(n, k, m, carry) ==
    IF k > Len(n)
    THEN IF carry = 0 THEN <<>> ELSE <<carry % 256>> \o MulAdd(n, k, m, carry \div 256)
    ELSE LET x == n[k] * m + carry
         IN  <<x % 256>> \o MulAdd(n, k + 1, m, x \div 256)

RECURSIVE Base58Value(_, _, _)
Base58Value(s, k, acc) ==
    IF k > Len(s) THEN acc
    ELSE Base58Value(s, k + 1, MulAdd(acc, 1, Len(Base58Alphabet), Base58Digit(s[k])))

Reverse(s) == [k \in 1..Len(s) |-> s[Len(s) + 1 - k]]

\* the number of leading elements of s equal to c
LeadingCount(s, c) ==
    IF \A k \in 1..Len(s) : s[k] = c THEN Len(s)
    ELSE (CHOOSE k \in 1..Len(s) : s[k] # c /\ \A m \in 1..(k - 1) : s[m] = c) - 1

\* base58 decoding of a string over the alphabet: one zero byte for every
\* leading '1', then the big-endian bytes of the number the rest spells
Base58Decode(s) ==
    LET z == LeadingCount(s, Base58Alphabet[1])
    IN  [k \in 1..z |-> 0] \o Reverse(Base58Value(s, z + 1, <<>>))

\* one step of the long division of a big-endian base-256 number by m:
\* the quotient's bytes and the remainder
RECURSIVE DivMod(_, _, _, _)
DivMod(n, k, m, rem) ==
    IF k > Len(n) THEN [quo |-> <<>>, rem |-> rem]
    ELSE LET x == rem * 256 + n[k]
             rest == DivMod(n, k + 1, m, x % m)
         IN  [quo |-> <<x \div m>> \o rest.quo, rem |-> rest.rem]

RECURSIVE Base58Digits(_)
Base58Digits(n) ==
    LET z == LeadingCount(n, 0)
        v == SubSeq(n, z + 1, Len(n))
    IN  IF Len(v) = 0 THEN <<>>
        ELSE LET d == DivMod(v, 1, Len(Base58Alphabet), 0)
             IN  Base58Digits(d.quo) \o <<Base58Alphabet[d.rem + 1]>>

\* base58 encoding: a '1' for every leading zero byte, then the digits
Base58Encode(b) ==
    LET z == LeadingCount(b, 0)
    IN  [k \in 1..z |-> Base58Alphabet[1]] \o Base58Digits(SubSeq(b, z + 1, Len(b)))

\* `^[1-9A-HJ-NP-Za-km-z]{32,44}$`
solanaAddressRegex(s) == MatchClass(s, Base58Set, 32, 44)

\* "7S3P4HxJpyyigGzodYwHtCxZyUQe9JiBMHyRWXArAaKv"
strSolAddr ==
    <<55, 83, 51, 80, 52, 72, 120, 74, 112, 121, 121, 105, 103, 71, 122, 111, 100, 89,
      119, 72, 116, 67, 120, 90, 121, 85, 81, 101, 57, 74, 105, 66, 77, 72, 121, 82,
      87, 88, 65, 114, 65, 97, 75, 118>>
\* "11111111111111111111111111111111"
strSolZero == [k \in 1..32 |-> 49]
\* "11111111111111111111111111111112" and "...3": 31 zero bytes, then 1 or 2
strSolTwo == [k \in 1..32 |-> IF k = 32 THEN 50 ELSE 49]
strSolThree == [k \in 1..32 |-> IF k = 32 THEN 51 ELSE 49]
\* "11111111111111111111111111111121": 30 zero bytes and 58, 31 bytes
strSolShortKey == [k \in 1..32 |-> IF k = 31 THEN 50 ELSE 49]
\* 33 times "1": 33 zero bytes
strSolLongKey == [k \in 1..33 |-> 49]

\* the addresses the operations below are called with, decoded and encoded
\* once
KnownBase58 ==
    { strSolAddr, strSolZero, strSolTwo, strSolThree, strSolShortKey, strSolLongKey }
DecodedBase58 == [s \in KnownBase58 |-> Base58Decode(s)]
KnownKeys == { DecodedBase58[s] : s \in KnownBase58 }
EncodedKeys == [b \in KnownKeys |-> Base58Encode(b)]

\* web3.NewPublicKey(s): the decoded key, an error unless it is 32 bytes
NewPublicKey(s) ==
    IF \A k \in 1..Len(s) : s[k] \in Base58Set
    THEN LET b == IF s \in KnownBase58 THEN DecodedBase58[s] ELSE Base58Decode(s)
         IN  IF Len(b) = SolanaAddressLength
             THEN [ok |-> TRUE, key |-> b]
             ELSE [ok |-> FALSE, key |-> <<>>]
    ELSE [ok |-> FALSE, key |-> <<>>]

\* (PublicKey).String()
PublicKeyString(key) ==
    IF key \in KnownKeys THEN EncodedKeys[key] ELSE Base58Encode(key)

\* SolanaNetwork.String and BIP122Network.String: at most the first 32 bytes
NetworkString(n) == IF Len(n) > 32 THEN SubSeq(n, 1, 32) ELSE n

\* "5eykt4UsFv8P8NJdTREpY1vzqKqZKvdp"
SolanaMainnet ==
    <<53, 101, 121, 107, 116, 52, 85, 115, 70, 118, 56, 80, 56, 78, 74, 100,
      84, 82, 69, 112, 89, 49, 118, 122, 113, 75, 113, 90, 75, 118, 100, 112>>
\* "EtWTRABZaYq6iMfeYKouRu166VU2xqa1"
SolanaDevnet ==
    <<69, 116, 87, 84, 82, 65, 66, 90, 97, 89, 113, 54, 105, 77, 102, 101,
      89, 75, 111, 117, 82, 117, 49, 54, 54, 86, 85, 50, 120, 113, 97, 49>>
\* "4uhcVJyU9pJkvQyS88uRDiswHXSCkY3z"
SolanaTestnet ==
    <<52, 117, 104, 99, 86, 74, 121, 85, 57, 112, 74, 107, 118, 81, 121, 83,
      56, 56, 117, 82, 68, 105, 115, 119, 72, 88, 83, 67, 107, 89, 51, 122>>
\* ------------------------------------------------------------------------
\* BIP-122 networks and address grammars
\* ------------------------------------------------------------------------
\* "000000000019d6689c085ae165831e93"
BitcoinMainnet ==
    <<48, 48, 48, 48, 48, 48, 48, 48, 48, 48, 49, 57, 100, 54, 54, 56,
      57, 99, 48, 56, 53, 97, 101, 49, 54, 53, 56, 51, 49, 101, 57, 51>>
\* "000000000933ea01ad0ee984209779ba"
BitcoinTestnet ==
    <<48, 48, 48, 48, 48, 48, 48, 48, 48, 57, 51, 51, 101, 97, 48, 49,
      97, 100, 48, 101, 101, 57, 56, 52, 50, 48, 57, 55, 55, 57, 98, 97>>
\* "000000000000000000651ef99cb9fcbe"
BitcoinCashMainnet ==
    <<48, 48, 48, 48, 48, 48, 48, 48, 48, 48, 48, 48, 48, 48, 48, 48,
      48, 48, 54, 53, 49, 101, 102, 57, 57, 99, 98, 57, 102, 99, 98, 101>>
\* "12a765e31ffd4059bada1e25190f6e98"
LitecoinMainnet ==
    <<49, 50, 97, 55, 54, 53, 101, 51, 49, 102, 102, 100, 52, 48, 53, 57,
      98, 97, 100, 97, 49, 101, 50, 53, 49, 57, 48, 102, 54, 101, 57, 56>>
\* "4966625a4b2851d9fdee139e56211a0d"
LitecoinTestnet ==
    <<52, 57, 54, 54, 54, 50, 53, 97, 52, 98, 50, 56, 53, 49, 100, 57,
      102, 100, 101, 101, 49, 51, 57, 101, 53, 54, 50, 49, 49, 97, 48, 100>>
\* "1a91e3dace36e2be3bf030a65679fe82"
DogecoinMainnet ==
    <<49, 97, 57, 49, 101, 51, 100, 97, 99, 101, 51, 54, 101, 50, 98, 101,
      51, 98, 102, 48, 51, 48, 97, 54, 53, 54, 55, 57, 102, 101, 56, 50>>
\* "bb0a78264637406b6360aad926284d54"
DogecoinTestnet ==
    <<98, 98, 48, 97, 55, 56, 50, 54, 52, 54, 51, 55, 52, 48, 54, 98,
      54, 51, 54, 48, 97, 97, 100, 57, 50, 54, 50, 56, 52, 100, 53, 52>>
\* "00000ffd590b1485b3caadc19b22e637"
DashMainnet ==
    <<48, 48, 48, 48, 48, 102, 102, 100, 53, 57, 48, 98, 49, 52, 56, 53,
      98, 51, 99, 97, 97, 100, 99, 49, 57, 98, 50, 50, 101, 54, 51, 55>>
\* "qpzry9x8gf2tvdw0s3jn54khce6mua7l"
Bech32Charset ==
    <<113, 112, 122, 114, 121, 57, 120, 56, 103, 102, 50, 116, 118, 100, 119, 48,
      115, 51, 106, 110, 53, 52, 107, 104, 99, 101, 54, 109, 117, 97, 55, 108>>
Bech32Set == {Bech32Charset[k] : k \in 1..Len(Bech32Charset)}

HasPrefix(s, p) == Len(s) >= Len(p) /\ SubSeq(s, 1, Len(p)) = p
Drop(s, n) == SubSeq(s, n + 1, Len(s))

\* a first character in `first`, then 25 to 34 base58 characters
Base58Form(s, first) ==
    Len(s) >= 1 /\ s[1] \in first /\ MatchClass(Drop(s, 1), Base58Set, 25, 34)

\* the human-readable part hrp, then 39 to 59 bech32 characters
Bech32Form(s, hrp) ==
    HasPrefix(s, hrp) /\ MatchClass(Drop(s, Len(hrp)), Bech32Set, 39, 59)

\* `^(bc1[qpzry9x8gf2tvdw0s3jn54khce6mua7l]{39,59}|3[a-km-zA-HJ-NP-Z1-9]{25,34})$`
bitcoinMainnetAddressRegex(s) ==
    Bech32Form(s, <<98, 99, 49>>) \/ Base58Form(s, {51})

\* `^(tb1[...]{39,59}|2[a-km-zA-HJ-NP-Z1-9]{25,34})$`
bitcoinTestnetAddressRegex(s) ==
    Bech32Form(s, <<116, 98, 49>>) \/ Base58Form(s, {50})

\* `^(bitcoincash:)?[qp][...]{41}$|^[13][a-km-zA-HJ-NP-Z1-9]{25,34}$`
bitcoinCashMainnetAddressRegex(s) ==
    LET cashaddr(t) == Len(t) >= 1 /\ t[1] \in {113, 112}
                       /\ MatchClass(Drop(t, 1), Bech32Set, 41, 41)
        prefix == <<98, 105, 116, 99, 111, 105, 110, 99, 97, 115, 104, 58>>
    IN  \/ cashaddr(s)
        \/ HasPrefix(s, prefix) /\ cashaddr(Drop(s, Len(prefix)))
        \/ Base58Form(s, {49, 51})

\* `^(ltc1[...]{39,59}|[M3][a-km-zA-HJ-NP-Z1-9]{25,34})$`
litecoinMainnetAddressRegex(s) ==
    Bech32Form(s, <<108, 116, 99, 49>>) \/ Base58Form(s, {77, 51})

\* `^(tltc1[...]{39,59}|[mn2][a-km-zA-HJ-NP-Z1-9]{25,34})$`
litecoinTestnetAddressRegex(s) ==
    Bech32Form(s, <<116, 108, 116, 99, 49>>) \/ Base58Form(s, {109, 110, 50})

\* `^[D9A][a-km-zA-HJ-NP-Z1-9]{25,34}$`
dogecoinMainnetAddressRegex(s) == Base58Form(s, {68, 57, 65})

\* `^[nm][a-km-zA-HJ-NP-Z1-9]{25,34}$`
dogecoinTestnetAddressRegex(s) == Base58Form(s, {110, 109})

\* `^[X7][a-km-zA-HJ-NP-Z1-9]{25,34}$`
dashMainnetAddressRegex(s) == Base58Form(s, {88, 55})

\* `^([a-km-zA-HJ-NP-Z1-9]{25,35}|[a-z]{1,12}:?[qpzry9x8gf2tvdw0s3jn54khce6mua7l]{39,64})$`
genericBIP122AddressRegex(s) ==
    \/ MatchClass(s, Base58Set, 25, 35)
    \/ \E p \in 1..12 :
          /\ Len(s) > p
          /\ \A k \in 1..p : s[k] \in Lower
          /\ \/ MatchClass(Drop(s, p), Bech32Set, 39, 64)
             \/ s[p + 1] = Colon /\ MatchClass(Drop(s, p + 1), Bech32Set, 39, 64)

ValidateBIP122AddressLoose(address) ==
    IF Len(address) = 0 THEN ErrInvalidAddress
    ELSE IF genericBIP122AddressRegex(address) THEN NoErr
    ELSE ErrInvalidAddress

\* a ValidateBIP122Address with the generic pattern for every network
ValidateBIP122AddressAnyNetwork(network, address) == ValidateBIP122AddressLoose(address)

ValidateBIP122Address(network, address) ==
    IF Len(address) = 0 THEN ErrInvalidAddress
    ELSE LET ok == CASE network = BitcoinMainnet -> bitcoinMainnetAddressRegex(address)
                     [] network = BitcoinTestnet -> bitcoinTestnetAddressRegex(address)
                     [] network = BitcoinCashMainnet -> bitcoinCashMainnetAddressRegex(address)
                     [] network = LitecoinMainnet -> litecoinMainnetAddressRegex(address)
                     [] network = LitecoinTestnet -> litecoinTestnetAddressRegex(address)
                     [] network = DogecoinMainnet -> dogecoinMainnetAddressRegex(address)
                     [] network = DogecoinTestnet -> dogecoinTestnetAddressRegex(address)
                     [] network = DashMainnet -> dashMainnetAddressRegex(address)
                     [] OTHER -> genericBIP122AddressRegex(address)
         IN  IF ok THEN NoErr ELSE ErrInvalidAddress

\* ------------------------------------------------------------------------
\* Account identifiers.  An AccountID value is a record: variant names the
\* concrete type ("nil" is the nil interface / nil pointer), namespace,
\* reference and address are the fields of the (embedded) GenericAccountID,
\* and chainID, ethAddr, pubkey and network are the typed fields the
\* specialized variants add (empty where the variant has none).
\* ------------------------------------------------------------------------
NoBig == [neg |-> FALSE, mag |-> <<>>]

Account(variant, ns, ref, addr, chainID, ethAddr, pubkey, network) ==
    [variant |-> variant, namespace |-> ns, reference |-> ref, address |-> addr,
     chainID |-> chainID, ethAddr |-> ethAddr, pubkey |-> pubkey, network |-> network]

NilAccount == Account("nil", <<>>, <<>>, <<>>, NoBig, <<>>, <<>>, <<>>)

\* the zero GenericAccountID (var b GenericAccountID)
ZeroGeneric == Account("generic", <<>>, <<>>, <<>>, NoBig, <<>>, <<>>, <<>>)

\* a (value, error) result
Result(e, v) == [err |-> e, val |-> v]

newGenericUnchecked(ns, ref, addr) ==
    Account("generic", ns, ref, addr, NoBig, <<>>, <<>>, <<>>)

\* "eip155"
NamespaceEIP155 == <<101, 105, 112, 49, 53, 53>>
\* "solana"
NamespaceSolana == <<115, 111, 108, 97, 110, 97>>
\* "bip122"
NamespaceBIP122 == <<98, 105, 112, 49, 50, 50>>

\* a NewEIP155 that stores the chain id it is given
NewEIP155Unclamped(chainID, address) ==
    LET c == bigIntOrIntToBigInt(chainID)
    IN  Account("eip155", NamespaceEIP155, BigString(c), AddressHex(address),
                c, address, <<>>, <<>>)

NewEIP155(chainID, address) ==
    LET _chainID == bigIntOrIntToBigInt(chainID)
        c == IF BigCmp(_chainID, maxEIP155ChainID) > 0 THEN maxEIP155ChainID ELSE _chainID
    IN  Account("eip155", NamespaceEIP155, BigString(c), AddressHex(address),
                c, address, <<>>, <<>>)

NewEIP155FromHex(chainID, hexAddress) == NewEIP155(chainID, HexToAddress(hexAddress))

newEIP155FromReference(reference, hexAddress) ==
    LET parsed == BigSetString(reference)
    IN  IF ~parsed.ok THEN Result(ErrInvalidReference, NilAccount)
        ELSE Result(NoErr, NewEIP155FromHex(parsed.val, hexAddress))

NewSolana(network, address) ==
    Account("solana", NamespaceSolana, NetworkString(network), PublicKeyString(address),
            NoBig, <<>>, address, <<>>)

NewSolanaFromBase58(network, base58Address) ==
    IF ~solanaAddressRegex(base58Address) THEN Result(ErrInvalidAddress, NilAccount)
    ELSE LET addr == NewPublicKey(base58Address)
         IN  IF ~addr.ok THEN Result(ErrInvalidAddress, NilAccount)
             ELSE IF Len(addr.key) # SolanaAddressLength
                  THEN Result(ErrInvalidAddress, NilAccount)
             ELSE Result(NoErr, NewSolana(network, addr.key))

\* new(edwards25519.Point).SetBytes(b) of filippo.io/edwards25519 succeeds:
\* with y the little-endian number of b without its top bit, modulo
\* 2^255 - 19, (y^2 - 1) / (d y^2 + 1) is a square. Tabulated for the keys
\* the operations below are called with.
edwards25519SetBytes(b) ==
    CASE b = DecodedBase58[strSolAddr] -> TRUE
      [] b = DecodedBase58[strSolZero] -> TRUE
      [] b = DecodedBase58[strSolTwo] -> FALSE
      [] b = DecodedBase58[strSolThree] -> TRUE

\* what a validation returns: the error and the return statement it left by
Verdict(e, at) == [err |-> e, at |-> at]

\* ValidateSolanaAddressLoose(base58Address)
ValidateSolanaAddressLoose(base58Address) ==
    IF ~solanaAddressRegex(base58Address) THEN Verdict(ErrInvalidAddress, "format")
    ELSE LET addr == NewPublicKey(base58Address)
         IN  IF ~addr.ok THEN Verdict(ErrInvalidAddress, "decode")
             ELSE IF Len(addr.key) # SolanaAddressLength
                  THEN Verdict(ErrInvalidAddress, "length")
             ELSE Verdict(NoErr, "valid")

\* a ValidateSolanaAddress without the ed25519 check
ValidateSolanaAddressNoCurve(base58Address) == ValidateSolanaAddressLoose(base58Address)

\* ValidateSolanaAddress(base58Address)
ValidateSolanaAddress(base58Address) ==
    IF ~solanaAddressRegex(base58Address) THEN Verdict(ErrInvalidAddress, "format")
    ELSE LET addr == NewPublicKey(base58Address)
         IN  IF ~addr.ok THEN Verdict(ErrInvalidAddress, "decode")
             ELSE IF Len(addr.key) # SolanaAddressLength
                  THEN Verdict(ErrInvalidAddress, "length")
             ELSE IF ~edwards25519SetBytes(addr.key)
                  THEN Verdict(ErrInvalidAddress, "curve")
             ELSE Verdict(NoErr, "valid")

\* IsOnCurve(pubkey)
IsOnCurve(pubkey) == edwards25519SetBytes(pubkey)

NewBIP122(network, address) ==
    Account("bip122", NamespaceBIP122, NetworkString(network), address,
            NoBig, <<>>, <<>>, network)

NewBIP122WithValidation(network, address) ==
    LET e == ValidateBIP122Address(network, address)
    IN  IF e # NoErr THEN Result(e, NilAccount)
        ELSE Result(NoErr, NewBIP122(network, address))

NewBitcoinMainnet(address) == NewBIP122(BitcoinMainnet, address)
NewBitcoinTestnet(address) == NewBIP122(BitcoinTestnet, address)
NewBitcoinCashMainnet(address) == NewBIP122(BitcoinCashMainnet, address)
NewLitecoinMainnet(address) == NewBIP122(LitecoinMainnet, address)
NewDogecoinMainnet(address) == NewBIP122(DogecoinMainnet, address)
NewDashMainnet(address) == NewBIP122(DashMainnet, address)

\* The setters: [recv, ret] is the receiver after the call and the value
\* returned.  Each builds its result with the constructor of its variant
\* from the argument and a field read from the receiver.
SetResult(recv, ret) == [recv |-> recv, ret |-> ret]

\* a SetChainID that also stores the new account in its receiver
SetChainIDInPlace(a, chainID) ==
    IF a.variant = "nil" THEN SetResult(a, NilAccount)
    ELSE SetResult(NewEIP155(chainID, a.ethAddr), NewEIP155(chainID, a.ethAddr))

\* (*eip155AccountID).SetChainID
SetChainID(a, chainID) ==
    IF a.variant = "nil" THEN SetResult(a, NilAccount)
    ELSE SetResult(a, NewEIP155(chainID, a.ethAddr))

\* (*eip155AccountID).SetAddress
SetAddress(a, address) ==
    IF a.variant = "nil" THEN SetResult(a, NilAccount)
    ELSE SetResult(a, NewEIP155(a.chainID, address))

\* (*bip122AccountID).SetAddress
BIP122SetAddress(a, address) ==
    IF a.variant = "nil" THEN SetResult(a, NilAccount)
    ELSE SetResult(a, NewBIP122(a.network, address))

\* (*solanaAccountID).SetAccount
SetAccount(a, account) ==
    IF a.variant = "nil" THEN SetResult(a, NilAccount)
    ELSE SetResult(a, NewSolana(a.reference, account))

\* a Validate that looks at the address before the reference
ValidateAddressFirst(a) ==
    IF a.variant = "nil" THEN ErrEmptyValue
    ELSE IF ~NamespaceRegex(a.namespace) THEN ErrInvalidNamespace
    ELSE IF a.namespace = NamespaceEIP155
         THEN newEIP155FromReference(a.reference, a.address).err
    ELSE IF a.namespace = NamespaceSolana
         THEN NewSolanaFromBase58(a.reference, a.address).err
    ELSE IF a.namespace = NamespaceBIP122
         THEN NewBIP122WithValidation(a.reference, a.address).err
    ELSE IF ~AddressRegex(a.address) THEN ErrInvalidAddress
    ELSE IF ~ReferenceRegex(a.reference) THEN ErrInvalidReference
    ELSE NoErr

\* (*GenericAccountID).Validate, promoted to every variant
Validate(a) ==
    IF a.variant = "nil" THEN ErrEmptyValue
    ELSE IF ~NamespaceRegex(a.namespace) THEN ErrInvalidNamespace
    ELSE IF a.namespace = NamespaceEIP155
         THEN newEIP155FromReference(a.reference, a.address).err
    ELSE IF a.namespace = NamespaceSolana
         THEN NewSolanaFromBase58(a.reference, a.address).err
    ELSE IF a.namespace = NamespaceBIP122
         THEN NewBIP122WithValidation(a.reference, a.address).err
    ELSE IF ~ReferenceRegex(a.reference) THEN ErrInvalidReference
    ELSE IF ~AddressRegex(a.address) THEN ErrInvalidAddress
    ELSE NoErr

NewGeneric(namespace, reference, address) ==
    LET a == newGenericUnchecked(namespace, reference, address)
        e == Validate(a)
    IN  IF e # NoErr THEN Result(e, NilAccount) ELSE Result(NoErr, a)

IsZero(a) ==
    \/ a.variant = "nil"
    \/ a.namespace = <<>> /\ a.reference = <<>> /\ a.address = <<>>

\* String without the separator in front of the address
StringNoSeparator(a) ==
    IF IsZero(a) THEN <<>>
    ELSE a.namespace \o <<Colon>> \o a.reference \o a.address

String(a) ==
    IF IsZero(a) THEN <<>>
    ELSE a.namespace \o <<Colon>> \o a.reference \o <<Colon>> \o a.address

\* an Equal that also wants both sides to be of one concrete variant
EqualSameVariant(a, other) ==
    IF IsZero(a) /\ (other.variant = "nil" \/ IsZero(other)) THEN TRUE
    ELSE IF IsZero(a) \/ other.variant = "nil" \/ IsZero(other) THEN FALSE
    ELSE /\ a.variant = other.variant
         /\ a.namespace = other.namespace
         /\ a.reference = other.reference
         /\ a.address = other.address

\* a.Equal(other); the variants' Equal delegate to the embedded value's
Equal(a, other) ==
    IF IsZero(a) /\ (other.variant = "nil" \/ IsZero(other)) THEN TRUE
    ELSE IF IsZero(a) \/ other.variant = "nil" \/ IsZero(other) THEN FALSE
    ELSE /\ a.namespace = other.namespace
         /\ a.reference = other.reference
         /\ a.address = other.address

\* ------------------------------------------------------------------------
\* The parser registry and the top-level dispatcher
\* ------------------------------------------------------------------------
\* A Parser object: kind is its concrete type, ns the field of a
\* GenericParser, id tells two parser objects of one type apart.
ParserObj(kind, ns, id) == [kind |-> kind, ns |-> ns, id |-> id]
NilParser == ParserObj("nil", <<>>, 0)
eip155Parser == ParserObj("eip155", <<>>, 0)
solanaParser == ParserObj("solana", <<>>, 0)
bip122Parser == ParserObj("bip122", <<>>, 0)
NewGenericParser(namespace, id) == ParserObj("generic", namespace, id)

\* p.Namespace()
ParserNamespace(p) ==
    CASE p.kind = "eip155" -> NamespaceEIP155
      [] p.kind = "solana" -> NamespaceSolana
      [] p.kind = "bip122" -> NamespaceBIP122
      [] p.kind = "generic" -> p.ns

\* p.ParseAddress(reference, address)
ParseAddress(p, reference, address) ==
    CASE p.kind = "eip155" -> newEIP155FromReference(reference, address)
      [] p.kind = "solana" -> NewSolanaFromBase58(reference, address)
      [] p.kind = "bip122" -> Result(NoErr, NewBIP122(reference, address))
      [] p.kind = "generic" -> NewGeneric(p.ns, reference, address)

\* a registration that keeps the parser a namespace already has
RegistryPutIfAbsent(reg, p) ==
    [n \in (DOMAIN reg) \cup {ParserNamespace(p)} |->
        IF n \in DOMAIN reg THEN reg[n] ELSE p]

\* registry[p.Namespace()] = p
RegistryPut(reg, p) ==
    [n \in (DOMAIN reg) \cup {ParserNamespace(p)} |->
        IF n = ParserNamespace(p) THEN p ELSE reg[n]]

\* the (nil, false) of a lookup that found nothing
NoGot == [p |-> NilParser, ok |-> FALSE]

\* p, ok := registry[namespace]
RegistryGet(reg, namespace) ==
    IF namespace \in DOMAIN reg
    THEN [p |-> reg[namespace], ok |-> TRUE]
    ELSE [p |-> NilParser, ok |-> FALSE]

\* a Parse that never looks into the registry
ParseGenericOnly(reg, s) ==
    LET sp == SplitCAIP10(s)
    IN  IF sp.err # NoErr THEN Result(sp.err, NilAccount)
        ELSE NewGeneric(sp.namespace, sp.reference, sp.address)

\* Parse(s) with the registry reg
ParseWith(reg, s) ==
    LET sp == SplitCAIP10(s)
    IN  IF sp.err # NoErr THEN Result(sp.err, NilAccount)
        ELSE LET g == RegistryGet(reg, sp.namespace)
             IN  IF g.ok THEN ParseAddress(g.p, sp.reference, sp.address)
                 ELSE NewGeneric(sp.namespace, sp.reference, sp.address)

\* ParseWithNamespace(namespace, reference, address) with the registry reg
ParseWithNamespaceIn(reg, namespace, reference, address) ==
    LET g == RegistryGet(reg, namespace)
    IN  IF g.ok THEN ParseAddress(g.p, reference, address)
        ELSE NewGeneric(namespace, reference, address)

\* the package-level Equal(a, b) on two interface values
EqualFn(a, b) ==
    IF a.variant = "nil" /\ b.variant = "nil" THEN TRUE
    ELSE IF a.variant = "nil" \/ b.variant = "nil" THEN FALSE
    ELSE Equal(a, b)

\* ------------------------------------------------------------------------
\* The codecs of GenericAccountID.  A decoder takes the receiver a and
\* returns Result(err, the receiver after the call): `*a = *parsed`
\* overwrites the three fields of the receiver and nothing else.
\* ------------------------------------------------------------------------
Assign(a, parsed) ==
    [a EXCEPT !.namespace = parsed.namespace,
              !.reference = parsed.reference,
              !.address = parsed.address]

MarshalText(a) == String(a)

\* an UnmarshalText that stores the parts before it validates them
UnmarshalTextEager(a, text) ==
    LET sp == SplitCAIP10(text)
    IN  IF sp.err # NoErr THEN Result(sp.err, a)
        ELSE LET stored == Assign(a, newGenericUnchecked(sp.namespace, sp.reference, sp.address))
                 e == Validate(stored)
             IN  Result(e, stored)

UnmarshalText(a, text) ==
    LET sp == SplitCAIP10(text)
    IN  IF sp.err # NoErr THEN Result(sp.err, a)
        ELSE LET parsed == NewGeneric(sp.namespace, sp.reference, sp.address)
             IN  IF parsed.err # NoErr THEN Result(parsed.err, a)
                 ELSE Result(NoErr, Assign(a, parsed.val))

\* the two bytes in little-endian order
PutUint16LittleEndian(n) == <<n % 256, (n % 65536) \div 256>>

\* byte(n) and the two bytes binary.BigEndian.PutUint16 writes for uint16(n)
Byte(n) == n % 256
PutUint16(n) == <<(n % 65536) \div 256, n % 256>>
Uint16(b) == b[1] * 256 + b[2]

MarshalBinary(a) ==
    IF a.variant = "nil" THEN <<0, 0, 0, 0>>
    ELSE <<Byte(Len(a.namespace)), Byte(Len(a.reference))>> \o PutUint16(Len(a.address))
         \o a.namespace \o a.reference \o a.address

UnmarshalBinary(a, data) ==
    IF Len(data) < 4 THEN Result(ErrInvalidFormat, a)
    ELSE LET nsLen == data[1]
             refLen == data[2]
             addrLen == Uint16(SubSeq(data, 3, 4))
         IN  IF Len(data) # 4 + nsLen + refLen + addrLen THEN Result(ErrInvalidFormat, a)
             ELSE LET parsed == NewGeneric(SubSeq(data, 5, 4 + nsLen),
                                           SubSeq(data, 5 + nsLen, 4 + nsLen + refLen),
                                           SubSeq(data, 5 + nsLen + refLen,
                                                  4 + nsLen + refLen + addrLen))
                  IN  IF parsed.err # NoErr THEN Result(parsed.err, a)
                      ELSE Result(NoErr, Assign(a, parsed.val))

MarshalJSON(a) ==
    IF IsZero(a) THEN <<Quote, Quote>>
    ELSE <<Quote>> \o String(a) \o <<Quote>>

\* "null"
JSONNull == <<110, 117, 108, 108>>

UnmarshalJSON(a, data) ==
    IF data = JSONNull THEN Result(NoErr, Assign(a, ZeroGeneric))
    ELSE IF Len(data) < 2 \/ data[1] # Quote \/ data[Len(data)] # Quote
         THEN Result(ErrInvalidFormat, a)
    ELSE LET s == SubSeq(data, 2, Len(data) - 1)
         IN  IF s = <<>> THEN Result(NoErr, Assign(a, ZeroGeneric))
             ELSE UnmarshalText(a, s)

\* A driver.Value or Scan source: [type, v] with type "nil", "string",
\* "bytes" or "int64" (the last stands for every other Go type).
SQLNil == [type |-> "nil", v |-> <<>>]
SQLString(s) == [type |-> "string", v |-> s]
SQLBytes(b) == [type |-> "bytes", v |-> b]
SQLInt64 == [type |-> "int64", v |-> <<>>]

Value(a) == IF IsZero(a) THEN SQLNil ELSE SQLString(String(a))

\* a Scan that leaves the receiver alone on a NULL column
ScanKeepsOnNil(a, src) ==
    CASE src.type = "nil" -> Result(NoErr, a)
      [] src.type = "string" ->
            IF src.v = <<>> THEN Result(NoErr, Assign(a, ZeroGeneric))
            ELSE UnmarshalText(a, src.v)
      [] src.type = "bytes" ->
            IF Len(src.v) = 0 THEN Result(NoErr, Assign(a, ZeroGeneric))
            ELSE UnmarshalText(a, src.v)
      [] OTHER -> Result(ErrScanType, a)

Scan(a, src) ==
    CASE src.type = "nil" -> Result(NoErr, Assign(a, ZeroGeneric))
      [] src.type = "string" ->
            IF src.v = <<>> THEN Result(NoErr, Assign(a, ZeroGeneric))
            ELSE UnmarshalText(a, src.v)
      [] src.type = "bytes" ->
            IF Len(src.v) = 0 THEN Result(NoErr, Assign(a, ZeroGeneric))
            ELSE UnmarshalText(a, src.v)
      [] OTHER -> Result(ErrScanType, a)

\* cbor.Marshal(s) for a string s: the head of a definite-length text string
\* (major type 3) and the bytes of s
CBORMarshalString(s) ==
    (IF Len(s) < 24 THEN <<96 + Len(s)>>
     ELSE IF Len(s) < 256 THEN <<120, Len(s)>>
     ELSE <<121>> \o PutUint16(Len(s))) \o s

\* cbor.Unmarshal(data, &s) for a string s: a well-formed definite-length
\* text string is its content, null and undefined leave s empty, anything
\* else is an error
CBORUnmarshalString(data) ==
    IF Len(data) = 0 THEN [ok |-> FALSE, s |-> <<>>]
    ELSE IF data \in {<<246>>, <<247>>} THEN [ok |-> TRUE, s |-> <<>>]
    ELSE IF data[1] \in 96..119 /\ Len(data) = 1 + (data[1] - 96)
         THEN [ok |-> TRUE, s |-> SubSeq(data, 2, Len(data))]
    ELSE IF data[1] = 120 /\ Len(data) >= 2 /\ Len(data) = 2 + data[2]
         THEN [ok |-> TRUE, s |-> SubSeq(data, 3, Len(data))]
    ELSE IF data[1] = 121 /\ Len(data) >= 3 /\ Len(data) = 3 + Uint16(SubSeq(data, 2, 3))
         THEN [ok |-> TRUE, s |-> SubSeq(data, 4, Len(data))]
    ELSE [ok |-> FALSE, s |-> <<>>]

MarshalCBOR(a) ==
    IF IsZero(a) THEN CBORMarshalString(<<>>) ELSE CBORMarshalString(String(a))

UnmarshalCBOR(a, data) ==
    LET d == CBORUnmarshalString(data)
    IN  IF ~d.ok THEN Result(ErrCBOR, a)
        ELSE IF d.s = <<>> THEN Result(NoErr, Assign(a, ZeroGeneric))
        ELSE UnmarshalText(a, d.s)

\* ------------------------------------------------------------------------
\* ChainID (CAIP-2): a value {Namespace, Reference} with exported fields
\* ------------------------------------------------------------------------
ChainID(ns, ref) == [Namespace |-> ns, Reference |-> ref]

\* ChainID{}
ZeroChainID == ChainID(<<>>, <<>>)

\* a (ChainID, error) result
ChainResult(e, c) == [err |-> e, val |-> c]

\* fmt.Errorf("invalid JSON string for ChainID"): no sentinel
ErrChainJSON == "ErrChainJSON"
\* fmt.Errorf("cannot scan %T into ChainID", src): no sentinel
ErrChainScan == "ErrChainScan"

\* `^[a-f0-9]{32}$`
bip122ReferenceRegex(s) == MatchClass(s, (97..102) \cup Digit, 32, 32)

\* `^[1-9A-HJ-NP-Za-km-z]{32}$`
solanaReferenceRegex(s) == MatchClass(s, Base58Set, 32, 32)

\* "18446744073709551615": 1<<64 - 1
strMaxUint64 ==
    <<49, 56, 52, 52, 54, 55, 52, 52, 48, 55, 51, 55, 48, 57, 53, 53, 49, 54, 49, 53>>

\* strconv.ParseUint(s, 10, 64): one or more decimal digits, no sign and no
\* underscore (the base is given), and a value that fits 64 bits
ParseUint(s) ==
    IF Len(s) = 0 \/ \E k \in 1..Len(s) : s[k] \notin Digit
    THEN [ok |-> FALSE, val |-> <<48>>]
    ELSE IF CmpMag(StripZeros(s), strMaxUint64) > 0
         THEN [ok |-> FALSE, val |-> strMaxUint64]
    ELSE [ok |-> TRUE, val |-> StripZeros(s)]

\* strconv.FormatUint(chainID, 10)
FormatUint(n) == NatDigits(n)

\* strings.Split(s, ":"): the parts between the colons, one more than colons
RECURSIVE StringsSplit(_)
StringsSplit(s) ==
    LET i == ScanColon(s, 1)
    IN  IF i > Len(s) THEN <<s>>
        ELSE <<SubSeq(s, 1, i - 1)>> \o StringsSplit(SubSeq(s, i + 1, Len(s)))

validateReference(ns, reference) ==
    IF ns = NamespaceEIP155
    THEN (IF ParseUint(reference).ok THEN NoErr ELSE ErrInvalidReference)
    ELSE IF ns = NamespaceSolana
    THEN (IF solanaReferenceRegex(reference) THEN NoErr ELSE ErrInvalidReference)
    ELSE IF ns = NamespaceBIP122
    THEN (IF bip122ReferenceRegex(reference) THEN NoErr ELSE ErrInvalidReference)
    ELSE ErrInvalidNamespace

NewEIP155ChainID(chainID) == ChainID(NamespaceEIP155, FormatUint(chainID))

NewSolanaChainID(network) == ChainID(NamespaceSolana, NetworkString(network))

NewBIP122ChainID(blockHash) ==
    LET e == validateReference(NamespaceBIP122, blockHash)
    IN  IF e # NoErr THEN ChainResult(e, ZeroChainID)
        ELSE ChainResult(NoErr, ChainID(NamespaceBIP122, blockHash))

ParseChainID(s) ==
    LET parts == StringsSplit(s)
    IN  IF Len(parts) # 2 THEN ChainResult(ErrInvalidFormat, ZeroChainID)
        ELSE LET e == validateReference(parts[1], parts[2])
             IN  IF e # NoErr THEN ChainResult(e, ZeroChainID)
                 ELSE ChainResult(NoErr, ChainID(parts[1], parts[2]))

\* c.IsZero()
ChainIDIsZero(c) == c.Namespace = <<>> /\ c.Reference = <<>>

\* c.Equal(other)
ChainIDEqual(c, other) == c.Namespace = other.Namespace /\ c.Reference = other.Reference

\* c.Validate()
ChainIDValidate(c) ==
    IF ChainIDIsZero(c) THEN ErrEmptyValue ELSE validateReference(c.Namespace, c.Reference)

\* c.String()
ChainIDString(c) ==
    IF ChainIDIsZero(c) THEN <<>> ELSE c.Namespace \o <<Colon>> \o c.Reference

\* a.ChainID() of an account
AccountChainID(a) ==
    IF a.variant = "nil" THEN ZeroChainID ELSE ChainID(a.namespace, a.reference)

\* c.ToAccountID(address) with the registry reg
ChainIDToAccountID(reg, c, address) ==
    ParseWithNamespaceIn(reg, c.Namespace, c.Reference, address)

\* ParseWithChainID(chainID, address) with the registry reg
ParseWithChainIDIn(reg, chainID, address) == ParseWith(reg, chainID \o <<Colon>> \o address)

\* AccountIDColumns and AccountIDColumnsCompact
Columns(ns, ref, addr) == [Namespace |-> ns, Reference |-> ref, Address |-> addr]
ColumnsCompact(chainID, addr) == [ChainID |-> chainID, Address |-> addr]

ZeroColumns == Columns(<<>>, <<>>, <<>>)
ZeroCompact == ColumnsCompact(<<>>, <<>>)

\* a ToAccountID that builds a GenericAccountID whatever the namespace
ColumnsToAccountIDGeneric(reg, c) == NewGeneric(c.Namespace, c.Reference, c.Address)

ColumnsToAccountID(reg, c) == ParseWithNamespaceIn(reg, c.Namespace, c.Reference, c.Address)

ColumnsCompactIsZero(c) == c.ChainID = <<>> /\ c.Address = <<>>

\* AccountIDColumns.IsZero
ColumnsIsZero(c) == c.Namespace = <<>> /\ c.Reference = <<>> /\ c.Address = <<>>

\* AccountIDColumns.ToCompact
ToCompact(c) ==
    IF ColumnsIsZero(c) THEN ZeroCompact
    ELSE ColumnsCompact(c.Namespace \o <<Colon>> \o c.Reference, c.Address)

\* (*GenericAccountID).ToColumns and ToColumnsCompact, promoted to every variant
ToColumns(a) ==
    IF a.variant = "nil" THEN ZeroColumns
    ELSE Columns(a.namespace, a.reference, a.address)

ToColumnsCompact(a) ==
    IF a.variant = "nil" THEN ZeroCompact
    ELSE ColumnsCompact(ChainIDString(AccountChainID(a)), a.address)

\* SplitCAIP2(s): the namespace and the reference of a CAIP-2 string
SplitCAIP2(s) ==
    IF Len(s) = 0 THEN SplitResult(ErrEmptyValue, EmptyString, EmptyString, EmptyString)
    ELSE LET i == ScanColon(s, 1) IN
         IF i > Len(s)
         THEN SplitResult(ErrInvalidFormat, EmptyString, EmptyString, EmptyString)
         ELSE IF ScanColon(s, i + 1) <= Len(s)
         THEN SplitResult(ErrInvalidFormat, EmptyString, EmptyString, EmptyString)
         ELSE SplitResult(NoErr, SubSeq(s, 1, i - 1), SubSeq(s, i + 1, Len(s)), EmptyString)

\* AccountIDColumnsCompact.ToFull
ToFull(c) ==
    IF ColumnsCompactIsZero(c) THEN Result(NoErr, ZeroColumns)
    ELSE LET r == SplitCAIP2(c.ChainID)
         IN  IF r.err # NoErr THEN Result(r.err, ZeroColumns)
             ELSE Result(NoErr, Columns(r.namespace, r.reference, c.Address))

ColumnsCompactToAccountID(reg, c) ==
    IF ColumnsCompactIsZero(c) THEN Result(ErrEmptyValue, NilAccount)
    ELSE ParseWith(reg, c.ChainID \o <<Colon>> \o c.Address)

\* a.ToNative() with the registry reg
ToNative(reg, a) ==
    IF a.variant = "nil" THEN NilAccount
    ELSE LET g == RegistryGet(reg, a.namespace)
         IN  IF g.ok /\ ParseAddress(g.p, a.reference, a.address).err = NoErr
             THEN ParseAddress(g.p, a.reference, a.address).val
             ELSE newGenericUnchecked(a.namespace, a.reference, a.address)

\* the bytes encoding/json writes for the byte c of a string: the quote and
\* the backslash are escaped with a backslash, \n, \r and \t have their
\* short forms, other control characters and <, > and & become \u00XX
\* (ASCII; the strings here hold no byte above 127)
JSONEscape(c) ==
    IF c \in {Quote, 92} THEN <<92, c>>
    ELSE IF c = 10 THEN <<92, 110>>
    ELSE IF c = 13 THEN <<92, 114>>
    ELSE IF c = 9 THEN <<92, 116>>
    ELSE IF c < 32 \/ c \in {60, 62, 38}
         THEN <<92, 117, 48, 48, HexDigit(c \div 16), HexDigit(c % 16)>>
    ELSE <<c>>

RECURSIVE JSONEscapeAll(_)
JSONEscapeAll(s) ==
    IF s = <<>> THEN <<>> ELSE JSONEscape(Head(s)) \o JSONEscapeAll(Tail(s))

\* json.Marshal(s) for a string s
JSONMarshalString(s) == <<Quote>> \o JSONEscapeAll(s) \o <<Quote>>

ChainIDMarshalText(c) == ChainIDString(c)

\* a ChainID.UnmarshalText without the branch for empty text
ChainIDUnmarshalTextStrict(c, text) ==
    LET parsed == ParseChainID(text)
    IN  IF parsed.err # NoErr THEN ChainResult(parsed.err, c)
        ELSE ChainResult(NoErr, parsed.val)

\* the decoders take the receiver c and return (error, receiver after)
ChainIDUnmarshalText(c, text) ==
    IF Len(text) = 0 THEN ChainResult(NoErr, ZeroChainID)
    ELSE LET parsed == ParseChainID(text)
         IN  IF parsed.err # NoErr THEN ChainResult(parsed.err, c)
             ELSE ChainResult(NoErr, parsed.val)

ChainIDMarshalBinary(c) == ChainIDString(c)

ChainIDUnmarshalBinary(c, data) == ChainIDUnmarshalText(c, data)

ChainIDMarshalJSON(c) ==
    IF ChainIDIsZero(c) THEN <<Quote, Quote>> ELSE JSONMarshalString(ChainIDString(c))

ChainIDUnmarshalJSON(c, data) ==
    IF data = JSONNull THEN ChainResult(NoErr, ZeroChainID)
    ELSE IF Len(data) < 2 \/ data[1] # Quote \/ data[Len(data)] # Quote
         THEN ChainResult(ErrChainJSON, c)
    ELSE LET s == SubSeq(data, 2, Len(data) - 1)
         IN  IF s = <<>> THEN ChainResult(NoErr, ZeroChainID)
             ELSE ChainIDUnmarshalText(c, s)

ChainIDValue(c) == IF ChainIDIsZero(c) THEN SQLNil ELSE SQLString(ChainIDString(c))

ChainIDScan(c, src) ==
    CASE src.type = "string" ->
            IF src.v = <<>> THEN ChainResult(NoErr, ZeroChainID)
            ELSE ChainIDUnmarshalText(c, src.v)
      [] src.type = "bytes" ->
            IF Len(src.v) = 0 THEN ChainResult(NoErr, ZeroChainID)
            ELSE ChainIDUnmarshalText(c, src.v)
      [] src.type = "nil" -> ChainResult(NoErr, ZeroChainID)
      [] OTHER -> ChainResult(ErrChainScan, c)

\* ------------------------------------------------------------------------
\* The operations that read the registry, step by step.  A call is
\* [fn, x]: the operation and, as a tuple of strings, its arguments (for a
\* method the fields of its receiver, then its arguments; <<>> is the nil
\* receiver).  Each operation runs some code of its own, reads
\* registry[ns] once at most, and then finishes with what the read gave.
\* ------------------------------------------------------------------------
ReadCall(fn, x) == [fn |-> fn, x |-> x]

Begun(done, r, ns, ref, addr) ==
    [done |-> done, res |-> r, ns |-> ns, ref |-> ref, addr |-> addr]

\* the receiver of a method call: a *GenericAccountID
Receiver(x) == IF x = <<>> THEN NilAccount ELSE newGenericUnchecked(x[1], x[2], x[3])

\* the code of Parse before `registry[ns]`
BeforeReadParse(s) ==
    LET sp == SplitCAIP10(s)
    IN  IF sp.err # NoErr THEN Begun(TRUE, Result(sp.err, NilAccount), <<>>, <<>>, <<>>)
        ELSE Begun(FALSE, Result(NoErr, NilAccount), sp.namespace, sp.reference, sp.address)

\* the code of a call before its read of the registry: done tells that the
\* call returns res without reading it
BeforeRead(c) ==
    CASE c.fn \in {"Parse", "MustParse"} -> BeforeReadParse(c.x[1])
      [] c.fn = "ParseWithChainID" -> BeforeReadParse(c.x[1] \o <<Colon>> \o c.x[2])
      [] c.fn = "ParseWithNamespace" ->
            Begun(FALSE, Result(NoErr, NilAccount), c.x[1], c.x[2], c.x[3])
      [] c.fn \in {"ChainID.ToAccountID", "AccountIDColumns.ToAccountID"} ->
            Begun(FALSE, Result(NoErr, NilAccount), c.x[1], c.x[2], c.x[3])
      [] c.fn = "AccountIDColumnsCompact.ToAccountID" ->
            IF ColumnsCompactIsZero(ColumnsCompact(c.x[1], c.x[2]))
            THEN Begun(TRUE, Result(ErrEmptyValue, NilAccount), <<>>, <<>>, <<>>)
            ELSE BeforeReadParse(c.x[1] \o <<Colon>> \o c.x[2])
      [] c.fn = "ToNative" ->
            IF c.x = <<>> THEN Begun(TRUE, NilAccount, <<>>, <<>>, <<>>)
            ELSE Begun(FALSE, NilAccount, c.x[1], c.x[2], c.x[3])
      [] c.fn = "GetParser" -> Begun(FALSE, NoGot, c.x[1], <<>>, <<>>)
      [] c.fn = "Validate" -> Begun(TRUE, Validate(Receiver(c.x)), <<>>, <<>>, <<>>)

\* a dispatch that forgets what the read of the registry gave
AfterReadGeneric(c, b, g) ==
    CASE c.fn = "GetParser" -> g
      [] c.fn = "ToNative" -> newGenericUnchecked(b.ns, b.ref, b.addr)
      [] OTHER -> NewGeneric(b.ns, b.ref, b.addr)

\* the code of a call after `p, ok := registry[ns]` gave g
AfterRead(c, b, g) ==
    CASE c.fn = "GetParser" -> g
      [] c.fn = "ToNative" ->
            IF g.ok /\ ParseAddress(g.p, b.ref, b.addr).err = NoErr
            THEN ParseAddress(g.p, b.ref, b.addr).val
            ELSE newGenericUnchecked(b.ns, b.ref, b.addr)
      [] OTHER ->
            IF g.ok THEN ParseAddress(g.p, b.ref, b.addr)
            ELSE NewGeneric(b.ns, b.ref, b.addr)

\* what the call returns when nothing else runs, with the registry reg
Alone(reg, c) ==
    CASE c.fn \in {"Parse", "MustParse"} -> ParseWith(reg, c.x[1])
      [] c.fn = "ParseWithChainID" -> ParseWithChainIDIn(reg, c.x[1], c.x[2])
      [] c.fn = "ParseWithNamespace" -> ParseWithNamespaceIn(reg, c.x[1], c.x[2], c.x[3])
      [] c.fn = "ChainID.ToAccountID" ->
            ChainIDToAccountID(reg, ChainID(c.x[1], c.x[2]), c.x[3])
      [] c.fn = "AccountIDColumns.ToAccountID" ->
            ColumnsToAccountID(reg, Columns(c.x[1], c.x[2], c.x[3]))
      [] c.fn = "AccountIDColumnsCompact.ToAccountID" ->
            ColumnsCompactToAccountID(reg, ColumnsCompact(c.x[1], c.x[2]))
      [] c.fn = "ToNative" -> ToNative(reg, Receiver(c.x))
      [] c.fn = "GetParser" -> RegistryGet(reg, c.x[1])
      [] c.fn = "Validate" -> Validate(Receiver(c.x))

\* ------------------------------------------------------------------------
\* The inputs the operations are called with
\* ------------------------------------------------------------------------
\* "unknown"
strUnknown == <<117, 110, 107, 110, 111, 119, 110>>
\* "cosmos"
strCosmos == <<99, 111, 115, 109, 111, 115>>
\* "ab"
strAb == <<97, 98>>
\* "EIP155"
strUpperEIP155 == <<69, 73, 80, 49, 53, 53>>
\* "1"
strOne == <<49>>
\* "007"
str007 == <<48, 48, 55>>
\* "abc"
strAbc == <<97, 98, 99>>
\* "-5"
strMinus5 == <<45, 53>>
\* "hub"
strHub == <<104, 117, 98>>
\* "ref"
strRef == <<114, 101, 102>>
\* "0xab16a96D359eC26a11e2C2b3d8f8B8942d5Bfcdb"
strEthAddr ==
    <<48, 120, 97, 98, 49, 54, 97, 57, 54, 68, 51, 53, 57, 101, 67, 50, 54, 97,
      49, 49, 101, 50, 67, 50, 98, 51, 100, 56, 102, 56, 66, 56, 57, 52, 50, 100,
      53, 66, 102, 99, 100, 98>>
\* "0xabc"
str0xabc == <<48, 120, 97, 98, 99>>
\* "invalid"
strInvalid == <<105, 110, 118, 97, 108, 105, 100>>
\* "35PBEaofpUeH8VnnNSorM1QZsadrZoQp4N"
strP2SH ==
    <<51, 53, 80, 66, 69, 97, 111, 102, 112, 85, 101, 72, 56, 86, 110, 110, 78, 83,
      111, 114, 77, 49, 81, 90, 115, 97, 100, 114, 90, 111, 81, 112, 52, 78>>
\* "bc1qwz2lhc40s8ty3l5jg3plpve3y3l82x9l42q7fk"
strSegwit ==
    <<98, 99, 49, 113, 119, 122, 50, 108, 104, 99, 52, 48, 115, 56, 116, 121, 51, 108,
      53, 106, 103, 51, 112, 108, 112, 118, 101, 51, 121, 51, 108, 56, 50, 120, 57, 108,
      52, 50, 113, 55, 102, 107>>
\* "bc1qtest"
strBc1qtest == <<98, 99, 49, 113, 116, 101, 115, 116>>
\* "invalid!address"
strInvalidBang == <<105, 110, 118, 97, 108, 105, 100, 33, 97, 100, 100, 114, 101, 115, 115>>
\* "addr"
strAddr == <<97, 100, 100, 114>>
\* "addr1"
strAddr1 == <<97, 100, 100, 114, 49>>
\* "a:b"
strAColonB == <<97, 58, 98>>
\* "123"
strNumber == <<49, 50, 51>>
\* "100000000000000000000000000000000": 10^32
strTenPow32 == <<49>> \o [k \in 1..32 |-> 48]

CAIP2(ns, ref) == ns \o <<Colon>> \o ref
CAIP10(ns, ref, addr) == ns \o <<Colon>> \o ref \o <<Colon>> \o addr

\* the strings Parse is called with
ParseInputs ==
    { <<>>,
      CAIP2(NamespaceEIP155, strOne),
      CAIP10(strUnknown, strOne, strAddr),
      CAIP10(NamespaceEIP155, strOne, strEthAddr),
      CAIP10(NamespaceEIP155, str007, str0xabc),
      CAIP10(NamespaceEIP155, strAbc, strEthAddr),
      CAIP10(NamespaceEIP155, strTenPow32, strInvalid),
      CAIP10(NamespaceEIP155, strMinus5, <<>>),
      CAIP10(NamespaceSolana, SolanaMainnet, strSolAddr),
      CAIP10(NamespaceSolana, <<>>, strSolAddr),
      CAIP10(NamespaceSolana, SolanaMainnet, strInvalid),
      CAIP10(NamespaceBIP122, BitcoinMainnet, strP2SH),
      CAIP10(NamespaceBIP122, BitcoinMainnet, strSegwit),
      CAIP10(NamespaceBIP122, BitcoinMainnet, strInvalidBang),
      CAIP10(NamespaceBIP122, BitcoinMainnet \o strAbc, strP2SH),
      CAIP10(NamespaceBIP122, <<>>, <<>>),
      CAIP10(strCosmos, strHub, strAddr1),
      CAIP10(strCosmos, <<>>, strAddr),
      CAIP10(strCosmos, strRef, <<>>),
      CAIP10(strCosmos, strHub, strAColonB),
      CAIP10(strAb, strOne, str0xabc),
      CAIP10(strUpperEIP155, strOne, str0xabc) }

\* the (namespace, reference, address) triples NewGeneric is called with
NewGenericInputs ==
    { <<strCosmos, strHub, strAddr1>>,
      <<strCosmos, <<>>, strAddr>>,
      <<strCosmos, strHub, strInvalidBang>>,
      <<strAb, strRef, strAddr>>,
      <<<<>>, <<>>, <<>>>>,
      <<NamespaceEIP155, strOne, strEthAddr>>,
      <<NamespaceEIP155, strOne, <<>>>>,
      <<NamespaceSolana, <<>>, strSolAddr>>,
      <<NamespaceBIP122, <<>>, strP2SH>>,
      <<NamespaceBIP122, BitcoinMainnet, <<>>>> }

\* chain ids (as *big.Int or a machine integer) and addresses for NewEIP155
ChainIDInputs == { BigInt(FALSE, strOne), BigInt(FALSE, strTenPow32) }
EthAddressInputs == { HexToAddress(strEthAddr) }
HexAddressInputs == { strEthAddr, strInvalid }

\* networks and keys for the Solana constructors
SolanaNetworkInputs == { SolanaMainnet, strAColonB }
PublicKeyInputs == { DecodedBase58[strSolAddr] }
Base58Inputs == { strSolAddr, strInvalid }

\* networks and addresses for NewBIP122
BIP122NetworkInputs == { BitcoinMainnet }
BIP122AddressInputs == { strP2SH, strBc1qtest }

\* the parsers RegisterParser is called with
ParserInputs ==
    { NewGenericParser(strUnknown, 1),
      NewGenericParser(strUnknown, 2),
      NewGenericParser(NamespaceBIP122, 3),
      bip122Parser }

\* the namespaces GetParser is called with
NamespaceInputs == { NamespaceEIP155, NamespaceBIP122, strUnknown }

\* text payloads for UnmarshalText
TextInputs ==
    { <<>>,
      CAIP2(NamespaceEIP155, strOne),
      CAIP10(strCosmos, strHub, strAddr1),
      CAIP10(strCosmos, <<>>, strAddr),
      CAIP10(NamespaceEIP155, strOne, <<>>),
      CAIP10(NamespaceSolana, SolanaMainnet, strInvalid) }

\* binary payloads for UnmarshalBinary
BinaryInputs ==
    { <<>>,
      <<0, 0, 0>>,
      <<0, 0, 0, 0>>,
      <<6, 3, 0, 5>> \o strCosmos \o strHub \o strAddr1,
      <<6, 3, 0, 5>> \o strCosmos \o strHub \o strAddr,
      <<6, 3, 0, 4>> \o strCosmos \o strHub \o strAddr1,
      <<6, 3, 5, 0>> \o strCosmos \o strHub \o strAddr1,
      <<2, 3, 0, 4>> \o strAb \o strRef \o strAddr }

\* JSON payloads for UnmarshalJSON
JSONInputs ==
    { JSONNull,
      <<Quote, Quote>>,
      <<Quote>>,
      strNumber,
      <<Quote>> \o CAIP10(strCosmos, strHub, strAddr1) \o <<Quote>>,
      <<Quote>> \o CAIP2(NamespaceEIP155, strOne) \o <<Quote>>,
      <<Quote>> \o CAIP10(strCosmos, strHub, strAddr1) }

\* CBOR payloads for UnmarshalCBOR: text strings, the integer 1, a text
\* string cut short, and null
CBORInputs ==
    { <<96>>,
      CBORMarshalString(CAIP10(strCosmos, strHub, strAddr1)),
      CBORMarshalString(CAIP2(NamespaceEIP155, strOne)),
      <<1>>,
      <<101, 97>>,
      <<246>> }

\* sources for Scan
ScanInputs ==
    { SQLNil,
      SQLString(<<>>),
      SQLBytes(<<>>),
      SQLString(CAIP10(strCosmos, strHub, strAddr1)),
      SQLBytes(CAIP10(strCosmos, strHub, strAddr1)),
      SQLString(strInvalid),
      SQLInt64 }

\* ------------------------------------------------------------------------
\* The state machine
\* ------------------------------------------------------------------------
\* registry: the package's parser registry (namespace -> Parser)
\* regLog:   every parser RegisterParser was called with, in call order
\* acct:     the AccountID the last constructor or Parse call returned
\* tgt:      the GenericAccountID the decoders are called on
\* old:      tgt as it was before the last decoder call
\* op, arg:  the last operation called and its argument
\* err:      the error the last operation returned
\* got:      what the last GetParser call returned
\* split:    what the last SplitCAIP10 call returned
\* chain:    the ChainID the last ChainID operation returned or decoded into
\* chainOld: chain as it was before the last ChainID decoder call
\* ret:      the account the last setter returned
\* before:   the receiver of the last setter as it was before the call
\* pc, req, seen, res: for each goroutine that calls Parse concurrently,
\*           where it is in Parse, the string it was given, what its read
\*           of the registry gave and what Parse returned
\* wr:       the parser a RegisterParser in progress is writing (NilParser
\*           when no write is in progress)
\* unsync:   some RegisterParser overlapped or followed a read of the
\*           registry by a concurrent Parse
VARIABLES registry, regLog, acct, tgt, old, op, arg, err, got,
          split, chain, chainOld, ret, before, cols,
          pc, req, seen, res, wr, unsync

chainVars == <<split, chain, chainOld>>
setVars == <<ret, before>>
colVars == <<cols>>
concVars == <<pc, req, seen, res, wr, unsync>>

vars == <<registry, regLog, acct, tgt, old, op, arg, err, got,
          chainVars, setVars, colVars, colVars, concVars>>

\* the goroutines that call Parse concurrently
Procs == {1, 2}

\* the most calls of RegisterParser in a run, the three of the package's
\* init functions included
MaxRegistrations == 5

EmptyRegistry == [n \in {} |-> NilParser]

\* the init functions of bip122.go, eip155.go and solana.go have run
InitLog == <<bip122Parser, eip155Parser, solanaParser>>
InitRegistry ==
    RegistryPut(RegistryPut(RegistryPut(EmptyRegistry, InitLog[1]), InitLog[2]), InitLog[3])

\* the accounts whose encodings the decoders are called with: what the
\* constructors return for the inputs above
AccountPool ==
    { NewGeneric(t[1], t[2], t[3]).val : t \in NewGenericInputs }
    \cup { NewEIP155FromHex(c, h) : c \in ChainIDInputs, h \in HexAddressInputs }
    \cup { NewSolanaFromBase58(n, b).val : n \in SolanaNetworkInputs, b \in Base58Inputs }
    \cup { NewBIP122(n, a) : n \in BIP122NetworkInputs, a \in BIP122AddressInputs }

Init ==
    /\ registry = InitRegistry
    /\ regLog = InitLog
    /\ acct = NilAccount
    /\ tgt = ZeroGeneric
    /\ old = ZeroGeneric
    /\ op = "init"
    /\ arg = <<>>
    /\ err = NoErr
    /\ got = NoGot
    /\ split = SplitResult(NoErr, EmptyString, EmptyString, EmptyString)
    /\ chain = ZeroChainID
    /\ chainOld = ZeroChainID
    /\ ret = NilAccount
    /\ before = NilAccount
    /\ cols = ZeroColumns
    /\ pc = [p \in Procs |-> "idle"]
    /\ req = [p \in Procs |-> ReadCall("", <<>>)]
    /\ seen = [p \in Procs |-> NoGot]
    /\ res = [p \in Procs |-> Result(NoErr, NilAccount)]
    /\ wr = NilParser
    /\ unsync = FALSE

CallRegisterParser ==
    /\ Len(regLog) < MaxRegistrations
    /\ \E p \in ParserInputs :
          /\ registry' = RegistryPut(registry, p)
          /\ regLog' = Append(regLog, p)
    /\ op' = "RegisterParser"
    /\ arg' = <<>>
    /\ err' = NoErr
    /\ got' = NoGot
    /\ UNCHANGED <<acct, tgt, old, chainVars, setVars, colVars, concVars>>

CallGetParser ==
    /\ \E ns \in NamespaceInputs :
          /\ got' = RegistryGet(registry, ns)
          /\ arg' = ns
    /\ op' = "GetParser"
    /\ err' = NoErr
    /\ UNCHANGED <<registry, regLog, acct, tgt, old, chainVars, setVars, colVars, concVars>>

\* a constructor or Parse returned r
Returned(name, r) ==
    /\ acct' = r.val
    /\ err' = r.err
    /\ op' = name
    /\ got' = NoGot
    /\ UNCHANGED <<registry, regLog, tgt, old, chainVars, setVars, colVars, concVars>>

CallParse ==
    \E s \in ParseInputs :
        /\ arg' = s
        /\ \E r \in { ParseWith(registry, s) } : Returned("Parse", r)

CallNewGeneric ==
    \E t \in NewGenericInputs :
        /\ arg' = t
        /\ \E r \in { NewGeneric(t[1], t[2], t[3]) } : Returned("NewGeneric", r)

CallNewEIP155 ==
    \E c \in ChainIDInputs, a \in EthAddressInputs :
        /\ arg' = <<>>
        /\ Returned("NewEIP155", Result(NoErr, NewEIP155(c, a)))

CallNewEIP155FromHex ==
    \E c \in ChainIDInputs, h \in HexAddressInputs :
        /\ arg' = <<>>
        /\ Returned("NewEIP155FromHex", Result(NoErr, NewEIP155FromHex(c, h)))

CallNewSolana ==
    \E n \in SolanaNetworkInputs, k \in PublicKeyInputs :
        /\ arg' = <<>>
        /\ Returned("NewSolana", Result(NoErr, NewSolana(n, k)))

CallNewSolanaFromBase58 ==
    \E n \in SolanaNetworkInputs, s \in Base58Inputs :
        /\ arg' = <<>>
        /\ \E r \in { NewSolanaFromBase58(n, s) } : Returned("NewSolanaFromBase58", r)

CallNewBIP122 ==
    \E n \in BIP122NetworkInputs, a \in BIP122AddressInputs :
        /\ arg' = <<>>
        /\ Returned("NewBIP122", Result(NoErr, NewBIP122(n, a)))

\* NewBitcoinMainnet, NewBitcoinTestnet, NewBitcoinCashMainnet,
\* NewLitecoinMainnet, NewDogecoinMainnet, NewDashMainnet
CallNewBIP122Network ==
    \E a \in { strP2SH } :
        /\ arg' = <<>>
        /\ \E v \in { NewBitcoinMainnet(a), NewBitcoinTestnet(a), NewBitcoinCashMainnet(a),
                      NewLitecoinMainnet(a), NewDogecoinMainnet(a), NewDashMainnet(a) } :
              Returned("NewBIP122Network", Result(NoErr, v))

\* var b GenericAccountID
DeclareTarget ==
    /\ tgt' = ZeroGeneric
    /\ old' = ZeroGeneric
    /\ op' = "var"
    /\ arg' = <<>>
    /\ err' = NoErr
    /\ got' = NoGot
    /\ UNCHANGED <<registry, regLog, acct, chainVars, setVars, colVars, concVars>>

\* a decoder called on tgt returned r
Decoded(name, r) ==
    /\ tgt' = r.val
    /\ old' = tgt
    /\ err' = r.err
    /\ op' = name
    /\ got' = NoGot
    /\ UNCHANGED <<registry, regLog, acct, chainVars, setVars, colVars, concVars>>

\* each decoder is called with the inputs above and with what the
\* matching encoder gives for the accounts of AccountPool
TextPayloads == TextInputs \cup { MarshalText(a) : a \in AccountPool }
BinaryPayloads == BinaryInputs \cup { MarshalBinary(a) : a \in AccountPool }
JSONPayloads == JSONInputs \cup { MarshalJSON(a) : a \in AccountPool }
CBORPayloads == CBORInputs \cup { MarshalCBOR(a) : a \in AccountPool }
ScanPayloads == ScanInputs \cup { Value(a) : a \in AccountPool }

CallUnmarshalText ==
    \E data \in TextPayloads :
        /\ arg' = data
        /\ \E r \in { UnmarshalText(tgt, data) } : Decoded("UnmarshalText", r)

CallUnmarshalBinary ==
    \E data \in BinaryPayloads :
        /\ arg' = data
        /\ \E r \in { UnmarshalBinary(tgt, data) } : Decoded("UnmarshalBinary", r)

CallUnmarshalJSON ==
    \E data \in JSONPayloads :
        /\ arg' = data
        /\ \E r \in { UnmarshalJSON(tgt, data) } : Decoded("UnmarshalJSON", r)

CallUnmarshalCBOR ==
    \E data \in CBORPayloads :
        /\ arg' = data
        /\ \E r \in { UnmarshalCBOR(tgt, data) } : Decoded("UnmarshalCBOR", r)

CallScan ==
    \E src \in ScanPayloads :
        /\ arg' = src
        /\ \E r \in { Scan(tgt, src) } : Decoded("Scan", r)

\* the registry, Parse and the constructors
NextAccounts ==
    \/ CallRegisterParser
    \/ CallGetParser
    \/ CallParse
    \/ CallNewGeneric
    \/ CallNewEIP155
    \/ CallNewEIP155FromHex
    \/ CallNewSolana
    \/ CallNewSolanaFromBase58
    \/ CallNewBIP122
    \/ CallNewBIP122Network

\* the decoders of GenericAccountID
NextCodec ==
    \/ DeclareTarget
    \/ CallUnmarshalText
    \/ CallUnmarshalBinary
    \/ CallUnmarshalJSON
    \/ CallUnmarshalCBOR
    \/ CallScan

Next == NextAccounts \/ NextCodec

Spec == Init /\ [][Next]_vars

\* the runs that build accounts, and the runs that decode them
SpecAccounts == Init /\ [][NextAccounts]_vars
SpecCodec == Init /\ [][NextCodec]_vars

\* ------------------------------------------------------------------------
\* ChainID: parsing, construction and the codecs
\* ------------------------------------------------------------------------
\* "18446744073709551616": 1<<64
strTwoPow64 ==
    <<49, 56, 52, 52, 54, 55, 52, 52, 48, 55, 51, 55, 48, 57, 53, 53, 49, 54, 49, 54>>
\* "000000000019D6689C085AE165831E93": the Bitcoin reference in upper case
strUpperBitcoin ==
    <<48, 48, 48, 48, 48, 48, 48, 48, 48, 48, 49, 57, 68, 54, 54, 56, 57, 67, 48, 56, 53,
      65, 69, 49, 54, 53, 56, 51, 49, 69, 57, 51>>

\* the strings ParseChainID is called with
ChainStringInputs ==
    { <<>>,
      NamespaceEIP155,
      CAIP2(NamespaceEIP155, strOne),
      CAIP2(NamespaceEIP155, str007),
      CAIP2(NamespaceEIP155, <<>>),
      CAIP2(NamespaceEIP155, strAbc),
      CAIP2(NamespaceEIP155, strMinus5),
      CAIP2(NamespaceEIP155, strTwoPow64),
      CAIP10(NamespaceEIP155, strOne, strEthAddr),
      CAIP2(NamespaceSolana, SolanaMainnet),
      CAIP2(NamespaceSolana, strAbc),
      CAIP2(NamespaceBIP122, BitcoinMainnet),
      CAIP2(NamespaceBIP122, strUpperBitcoin),
      CAIP2(strUnknown, strRef),
      CAIP2(strCosmos, strHub),
      CAIP2(<<>>, strOne) }

\* the chain ids NewEIP155ChainID is called with
Uint64Inputs == {0, 1, 137}

\* the ChainID values a caller builds from the exported fields or gets
\* from the constructors
ChainPool ==
    { ZeroChainID,
      ChainID(NamespaceEIP155, <<>>),
      ChainID(<<>>, strOne),
      ChainID(NamespaceEIP155, str007),
      ChainID(NamespaceEIP155, strTwoPow64),
      ChainID(strCosmos, strHub),
      ChainID(NamespaceBIP122, strUpperBitcoin) }
    \cup { NewEIP155ChainID(n) : n \in Uint64Inputs }
    \cup { NewSolanaChainID(n) : n \in {SolanaMainnet, SolanaDevnet} }
    \cup { NewBIP122ChainID(n).val : n \in {BitcoinMainnet, strAbc} }

\* an operation returned the ChainID r.val and the error r.err
ChainReturned(name, r) ==
    /\ chain' = r.val
    /\ err' = r.err
    /\ op' = name
    /\ UNCHANGED <<registry, regLog, acct, tgt, old, got, split, chainOld, setVars, colVars, concVars>>

CallParseChainID ==
    \E s \in ChainStringInputs :
        /\ arg' = s
        /\ \E r \in { ParseChainID(s) } : ChainReturned("ParseChainID", r)

CallNewEIP155ChainID ==
    \E n \in Uint64Inputs :
        /\ arg' = <<>>
        /\ ChainReturned("NewEIP155ChainID", ChainResult(NoErr, NewEIP155ChainID(n)))

CallNewSolanaChainID ==
    \E n \in {SolanaMainnet, SolanaDevnet} :
        /\ arg' = n
        /\ ChainReturned("NewSolanaChainID", ChainResult(NoErr, NewSolanaChainID(n)))

CallNewBIP122ChainID ==
    \E n \in {BitcoinMainnet, strAbc} :
        /\ arg' = n
        /\ ChainReturned("NewBIP122ChainID", NewBIP122ChainID(n))

\* c := ChainID{Namespace: ..., Reference: ...}
ChainIDLiteral ==
    \E c \in ChainPool :
        /\ arg' = <<>>
        /\ ChainReturned("ChainID{}", ChainResult(NoErr, c))

\* a decoder called on chain returned r
ChainDecoded(name, r) ==
    /\ chain' = r.val
    /\ chainOld' = chain
    /\ err' = r.err
    /\ op' = name
    /\ UNCHANGED <<registry, regLog, acct, tgt, old, got, split, setVars, colVars, concVars>>

\* each decoder is called with what the matching encoder gives for the
\* values of ChainPool and with some other payloads
ChainTextPayloads ==
    { ChainIDMarshalText(c) : c \in ChainPool } \cup { strAbc, CAIP2(strUnknown, strRef) }
ChainJSONPayloads ==
    { ChainIDMarshalJSON(c) : c \in ChainPool } \cup { JSONNull, strNumber, <<Quote>> }
ChainScanPayloads ==
    { ChainIDValue(c) : c \in ChainPool }
    \cup { SQLBytes(CAIP2(NamespaceEIP155, strOne)), SQLBytes(<<>>), SQLString(<<>>), SQLInt64 }

CallChainIDUnmarshalText ==
    \E data \in ChainTextPayloads :
        /\ arg' = data
        /\ \E r \in { ChainIDUnmarshalText(chain, data) } : ChainDecoded("ChainID.UnmarshalText", r)

CallChainIDUnmarshalBinary ==
    \E data \in { ChainIDMarshalBinary(c) : c \in ChainPool } :
        /\ arg' = data
        /\ \E r \in { ChainIDUnmarshalBinary(chain, data) } :
              ChainDecoded("ChainID.UnmarshalBinary", r)

CallChainIDUnmarshalJSON ==
    \E data \in ChainJSONPayloads :
        /\ arg' = data
        /\ \E r \in { ChainIDUnmarshalJSON(chain, data) } : ChainDecoded("ChainID.UnmarshalJSON", r)

CallChainIDScan ==
    \E src \in ChainScanPayloads :
        /\ arg' = src
        /\ \E r \in { ChainIDScan(chain, src) } : ChainDecoded("ChainID.Scan", r)

\* the ChainID constructors and codecs
NextChain ==
    \/ CallNewEIP155ChainID
    \/ CallNewSolanaChainID
    \/ CallNewBIP122ChainID
    \/ ChainIDLiteral
    \/ CallChainIDUnmarshalText
    \/ CallChainIDUnmarshalBinary
    \/ CallChainIDUnmarshalJSON
    \/ CallChainIDScan

SpecChain == Init /\ [][NextChain]_vars

\* ParseChainID while parsers are registered
NextChainParse ==
    \/ CallRegisterParser
    \/ CallParseChainID

SpecChainParse == Init /\ [][NextChainParse]_vars

\* ------------------------------------------------------------------------
\* The typed constructors and the setters
\* ------------------------------------------------------------------------
\* "99999999999999999999999999999999": 10^32 - 1
strTenPow32Minus1 == [k \in 1..32 |-> 57]
\* 10^50
strTenPow50 == <<49>> \o [k \in 1..50 |-> 48]

\* the *big.Int values SetChainID is called with
BigChainIDInputs ==
    { BigInt(FALSE, <<48>>), BigInt(FALSE, strOne), BigInt(TRUE, <<53>>),
      BigInt(FALSE, strTwoPow64), BigInt(FALSE, strTenPow32Minus1),
      BigInt(FALSE, strTenPow32), BigInt(FALSE, strTenPow50) }

\* the chain ids NewEIP155[C] is called with, C being each type of the
\* eip155ChainID constraint
TypedChainIDInputs ==
    BigChainIDInputs
    \cup { Uint256(strOne), Uint256(strTenPow32), Uint256(strTenPow50) }
    \cup { MachineInt(t, 7) : t \in UnsignedTypes \cup SignedTypes }
    \cup { MachineInt("uint8", 255), MachineInt("int", 137), MachineInt("int64", -1) }

\* the chain ids NewEIP155FromHex[C] is called with
HexChainIDInputs ==
    { BigInt(FALSE, strTenPow32), Uint256(strTenPow50), MachineInt("uint64", 1) }

SetterEthAddresses == { HexToAddress(strEthAddr), HexToAddress(str0xabc) }
SetterHexAddresses == { strEthAddr, strInvalid }
SetterPublicKeys == KnownKeys
SetterBIP122Addresses == { strP2SH, strSegwit, <<>> }

\* (*eip155AccountID).EIP155ChainID
EIP155ChainID(a) ==
    IF a.variant = "nil" \/ a.chainID = NoBig THEN NoBig ELSE a.chainID

\* NewEIP155[C](chainID, address)
CallNewEIP155Typed ==
    \E c \in TypedChainIDInputs, a \in { HexToAddress(strEthAddr) } :
        /\ arg' = c
        /\ Returned("NewEIP155", Result(NoErr, NewEIP155(c, a)))

\* NewEIP155FromHex[C](chainID, hexAddress)
CallNewEIP155FromHexTyped ==
    \E c \in HexChainIDInputs, h \in SetterHexAddresses :
        /\ arg' = c
        /\ Returned("NewEIP155FromHex", Result(NoErr, NewEIP155FromHex(c, h)))

\* a setter called on acct returned s.ret
SetterReturned(name, s) ==
    /\ acct' = s.recv
    /\ before' = acct
    /\ ret' = s.ret
    /\ op' = name
    /\ err' = NoErr
    /\ got' = NoGot
    /\ UNCHANGED <<registry, regLog, tgt, old, chainVars, colVars, concVars>>

CallSetChainID ==
    /\ acct.variant \in {"eip155", "nil"}
    /\ \E c \in BigChainIDInputs :
          /\ arg' = c
          /\ SetterReturned("SetChainID", SetChainID(acct, c))

CallSetAddress ==
    /\ acct.variant \in {"eip155", "nil"}
    /\ \E a \in SetterEthAddresses :
          /\ arg' = a
          /\ SetterReturned("SetAddress", SetAddress(acct, a))

CallBIP122SetAddress ==
    /\ acct.variant \in {"bip122", "nil"}
    /\ \E a \in SetterBIP122Addresses :
          /\ arg' = a
          /\ SetterReturned("BIP122.SetAddress", BIP122SetAddress(acct, a))

CallSetAccount ==
    /\ acct.variant \in {"solana", "nil"}
    /\ \E k \in SetterPublicKeys :
          /\ arg' = k
          /\ SetterReturned("SetAccount", SetAccount(acct, k))

\* a = a.SetChainID(...): the caller goes on with the returned account
KeepReturned ==
    /\ op \in {"SetChainID", "SetAddress", "BIP122.SetAddress", "SetAccount"}
    /\ ret.variant # "nil"
    /\ acct' = ret
    /\ op' = "keep"
    /\ arg' = <<>>
    /\ UNCHANGED <<registry, regLog, tgt, old, err, got, chainVars, setVars, colVars, concVars>>

NextSetters ==
    \/ CallNewEIP155Typed
    \/ CallNewEIP155FromHexTyped
    \/ CallNewSolana
    \/ CallNewBIP122
    \/ CallSetChainID
    \/ CallSetAddress
    \/ CallBIP122SetAddress
    \/ CallSetAccount
    \/ KeepReturned

SpecSetters == Init /\ [][NextSetters]_vars

\* ------------------------------------------------------------------------
\* Validate on the accounts the constructors, Parse and newGenericUnchecked
\* give
\* ------------------------------------------------------------------------
ValidateNamespaces == { strCosmos, strAb, strUpperEIP155, NamespaceEIP155, NamespaceBIP122, <<>> }
ValidateReferences == { strOne, strAbc, strAColonB, <<>> }
ValidateAddresses == { strEthAddr, strInvalid, strInvalidBang, <<>> }

\* newGenericUnchecked(namespace, reference, address)
CallNewGenericUnchecked ==
    \E ns \in ValidateNamespaces, ref \in ValidateReferences, addr \in ValidateAddresses :
        /\ arg' = <<ns, ref, addr>>
        /\ Returned("newGenericUnchecked", Result(NoErr, newGenericUnchecked(ns, ref, addr)))

\* acct.Validate()
CallValidate ==
    /\ err' = Validate(acct)
    /\ op' = "Validate"
    /\ arg' = <<>>
    /\ got' = NoGot
    /\ UNCHANGED <<registry, regLog, acct, tgt, old, chainVars, setVars, colVars, concVars>>

NextValidate ==
    \/ CallParse
    \/ CallNewGeneric
    \/ CallNewGenericUnchecked
    \/ CallValidate

SpecValidate == Init /\ [][NextValidate]_vars

\* ------------------------------------------------------------------------
\* Parse and the other operations that build an account from its parts
\* through the registry
\* ------------------------------------------------------------------------
\* the (namespace, reference, address) triples they are called with
PartsInputs ==
    { <<NamespaceEIP155, strOne, strEthAddr>>,
      <<NamespaceEIP155, strAbc, strEthAddr>>,
      <<NamespaceBIP122, BitcoinMainnet, strP2SH>>,
      <<NamespaceBIP122, BitcoinMainnet, strBc1qtest>>,
      <<NamespaceSolana, SolanaMainnet, strSolAddr>>,
      <<NamespaceSolana, SolanaMainnet, strInvalid>>,
      <<strUnknown, strOne, strAddr>>,
      <<strCosmos, strHub, strInvalidBang>>,
      <<<<>>, <<>>, <<>>>> }

CallParseWithNamespace ==
    \E t \in PartsInputs :
        /\ arg' = t
        /\ \E r \in { ParseWithNamespaceIn(registry, t[1], t[2], t[3]) } :
              Returned("ParseWithNamespace", r)

CallParseWithChainID ==
    \E t \in PartsInputs :
        /\ arg' = <<CAIP2(t[1], t[2]), t[3]>>
        /\ \E r \in { ParseWithChainIDIn(registry, CAIP2(t[1], t[2]), t[3]) } :
              Returned("ParseWithChainID", r)

CallChainIDToAccountID ==
    \E t \in PartsInputs :
        /\ arg' = t
        /\ \E r \in { ChainIDToAccountID(registry, ChainID(t[1], t[2]), t[3]) } :
              Returned("ChainID.ToAccountID", r)

CallColumnsToAccountID ==
    \E t \in PartsInputs :
        /\ arg' = t
        /\ \E r \in { ColumnsToAccountID(registry, Columns(t[1], t[2], t[3])) } :
              Returned("AccountIDColumns.ToAccountID", r)

CallColumnsCompactToAccountID ==
    \E t \in PartsInputs :
        /\ arg' = <<ChainIDString(ChainID(t[1], t[2])), t[3]>>
        /\ \E r \in { ColumnsCompactToAccountID(registry,
                          ColumnsCompact(ChainIDString(ChainID(t[1], t[2])), t[3])) } :
              Returned("AccountIDColumnsCompact.ToAccountID", r)

NextParse ==
    \/ CallRegisterParser
    \/ CallParse
    \/ CallParseWithNamespace
    \/ CallParseWithChainID
    \/ CallChainIDToAccountID
    \/ CallColumnsToAccountID
    \/ CallColumnsCompactToAccountID

SpecParse == Init /\ [][NextParse]_vars

\* ------------------------------------------------------------------------
\* The column structs: ToColumns, ToColumnsCompact, ToAccountID, ToFull and
\* ToCompact
\* ------------------------------------------------------------------------
\* the AccountIDColumnsCompact values a caller builds from the exported fields
CompactPool ==
    { ZeroCompact,
      ColumnsCompact(CAIP2(NamespaceEIP155, strOne), strEthAddr),
      ColumnsCompact(CAIP2(strCosmos, strHub), <<>>),
      ColumnsCompact(NamespaceEIP155, strEthAddr),
      ColumnsCompact(CAIP10(strCosmos, strHub, strAbc), strAddr),
      ColumnsCompact(<<>>, strAddr),
      ColumnsCompact(CAIP2(<<>>, strOne), strAddr),
      ColumnsCompact(CAIP2(NamespaceEIP155, <<>>), strEthAddr),
      ColumnsCompact(<<Colon>>, <<>>) }

\* a method that builds columns returned; cols holds the column struct, of
\* either type, that the caller keeps
ColumnsReturned(name) ==
    /\ op' = name
    /\ arg' = <<>>
    /\ err' = NoErr
    /\ got' = NoGot
    /\ UNCHANGED <<registry, regLog, acct, tgt, old, chainVars, setVars, concVars>>

\* cols = acct.ToColumns()
CallToColumns ==
    /\ cols' = ToColumns(acct)
    /\ ColumnsReturned("ToColumns")

\* cols = acct.ToColumnsCompact()
CallToColumnsCompact ==
    /\ cols' = ToColumnsCompact(acct)
    /\ ColumnsReturned("ToColumnsCompact")

\* cols = AccountIDColumnsCompact{ChainID: ..., Address: ...}
CompactLiteral ==
    /\ \E c \in CompactPool : cols' = c
    /\ ColumnsReturned("AccountIDColumnsCompact{}")

\* cols = cols.ToCompact() on an AccountIDColumns
CallToCompact ==
    /\ "Namespace" \in DOMAIN cols
    /\ cols' = ToCompact(cols)
    /\ ColumnsReturned("ToCompact")

\* cols, err = cols.ToFull() on an AccountIDColumnsCompact
CallToFull ==
    /\ "ChainID" \in DOMAIN cols
    /\ \E r \in { ToFull(cols) } :
          /\ cols' = r.val
          /\ err' = r.err
    /\ op' = "ToFull"
    /\ arg' = cols
    /\ got' = NoGot
    /\ UNCHANGED <<registry, regLog, acct, tgt, old, chainVars, setVars, concVars>>

\* a method of the columns returned the account r.val and the error r.err
AccountOfColumns(name, r) ==
    /\ ret' = r.val
    /\ err' = r.err
    /\ op' = name
    /\ arg' = <<>>
    /\ got' = NoGot
    /\ UNCHANGED <<registry, regLog, acct, before, tgt, old, chainVars, colVars, concVars>>

\* ret, err = cols.ToAccountID() on an AccountIDColumns
CallStoredColumnsToAccountID ==
    /\ "Namespace" \in DOMAIN cols
    /\ \E r \in { ColumnsToAccountID(registry, cols) } :
          AccountOfColumns("AccountIDColumns.ToAccountID", r)

\* ret, err = cols.ToAccountID() on an AccountIDColumnsCompact
CallStoredCompactToAccountID ==
    /\ "ChainID" \in DOMAIN cols
    /\ \E r \in { ColumnsCompactToAccountID(registry, cols) } :
          AccountOfColumns("AccountIDColumnsCompact.ToAccountID", r)

NextColumns ==
    \/ CallParse
    \/ CallToColumns
    \/ CallToColumnsCompact
    \/ CompactLiteral
    \/ CallToCompact
    \/ CallToFull
    \/ CallStoredColumnsToAccountID
    \/ CallStoredCompactToAccountID

SpecColumns == Init /\ [][NextColumns]_vars

\* ------------------------------------------------------------------------
\* ToNative on the accounts NewGeneric and Parse give, while parsers are
\* registered
\* ------------------------------------------------------------------------
\* ret = acct.ToNative()
CallToNative ==
    /\ ret' = ToNative(registry, acct)
    /\ before' = acct
    /\ op' = "ToNative"
    /\ arg' = <<>>
    /\ err' = NoErr
    /\ got' = NoGot
    /\ UNCHANGED <<registry, regLog, acct, tgt, old, chainVars, colVars, concVars>>

NextNative ==
    \/ CallRegisterParser
    \/ CallNewGeneric
    \/ CallParse
    \/ CallToNative

SpecNative == Init /\ [][NextNative]_vars

\* ------------------------------------------------------------------------
\* The two Solana address validations on addresses of every shape
\* ------------------------------------------------------------------------
\* the longest of the generated short addresses
MaxShortLen == 4

\* "1", "0" and "a"
ShortAlphabet == {49, 48, 97}

\* a base58 string whose first character is replaced by c
WithFirst(s, c) == [k \in 1..Len(s) |-> IF k = 1 THEN c ELSE s[k]]

\* every short string, the addresses of TestValidateSolanaAddress, addresses
\* starting with "0", "O", "I" and "l", 31, 32 and 33 byte keys, 45 characters
SolanaAddressInputs ==
    UNION { [1..k -> ShortAlphabet] : k \in 0..MaxShortLen }
    \cup KnownBase58
    \cup { WithFirst(strSolAddr, c) : c \in {48, 79, 73, 108} }
    \cup { [k \in 1..45 |-> 49], strSolAddr \o <<33>> }

CallValidateSolanaAddress ==
    /\ \E s \in SolanaAddressInputs :
          /\ arg' = s
          /\ \E r \in { ValidateSolanaAddress(s) } :
                /\ err' = r.err
                /\ got' = r
    /\ op' = "ValidateSolanaAddress"
    /\ UNCHANGED <<registry, regLog, acct, tgt, old, chainVars, setVars, colVars, concVars>>

CallValidateSolanaAddressLoose ==
    /\ \E s \in SolanaAddressInputs :
          /\ arg' = s
          /\ \E r \in { ValidateSolanaAddressLoose(s) } :
                /\ err' = r.err
                /\ got' = r
    /\ op' = "ValidateSolanaAddressLoose"
    /\ UNCHANGED <<registry, regLog, acct, tgt, old, chainVars, setVars, colVars, concVars>>

NextSolana ==
    \/ CallValidateSolanaAddress
    \/ CallValidateSolanaAddressLoose

SpecSolana == Init /\ [][NextSolana]_vars

\* ------------------------------------------------------------------------
\* The BIP-122 address validations on every network and address form
\* ------------------------------------------------------------------------
Repeat(c, n) == [k \in 1..n |-> c]

\* the first characters of the base58 forms: "3", "2", "1", "M", "m", "n",
\* "D", "9", "A", "X", "7", and "0", which is not base58
Base58Heads == { <<c>> : c \in {51, 50, 49, 77, 109, 110, 68, 57, 65, 88, 55, 48} }

\* the prefixes of the bech32 and CashAddr forms: "bc1", "tb1", "ltc1",
\* "tltc1", "bc1p", "q", "p", "bitcoincash:q", "bitcoincash" and "bc"
Bech32Heads ==
    { <<98, 99, 49>>, <<116, 98, 49>>, <<108, 116, 99, 49>>, <<116, 108, 116, 99, 49>>,
      <<98, 99, 49, 112>>, <<113>>, <<112>>,
      <<98, 105, 116, 99, 111, 105, 110, 99, 97, 115, 104, 58, 113>>,
      <<98, 105, 116, 99, 111, 105, 110, 99, 97, 115, 104>>, <<98, 99>> }

\* the empty address, the addresses of the tests, and every head followed by
\* "a" (base58) or "q" (bech32) repeated to the shortest and longest length a
\* pattern takes and to one less and one more
BIP122ValidationAddresses ==
    { EmptyString, strP2SH, strSegwit, strBc1qtest, strInvalidBang }
    \cup { h \o Repeat(97, n) : h \in Base58Heads, n \in {24, 25, 34, 35} }
    \cup { h \o Repeat(113, n) : h \in Bech32Heads, n \in {38, 39, 41, 59, 60, 64, 65} }

\* the eight networks with a pattern of their own
KnownBIP122Networks ==
    { BitcoinMainnet, BitcoinTestnet, BitcoinCashMainnet, LitecoinMainnet,
      LitecoinTestnet, DogecoinMainnet, DogecoinTestnet, DashMainnet }

\* the known networks, "", "abc" and the Bitcoin mainnet reference in capitals
BIP122ValidationNetworks ==
    KnownBIP122Networks \cup { EmptyString, strAbc, strUpperBitcoin }

CallValidateBIP122Address ==
    /\ \E n \in BIP122ValidationNetworks, a \in BIP122ValidationAddresses :
          /\ arg' = [network |-> n, address |-> a]
          /\ err' = ValidateBIP122Address(n, a)
    /\ op' = "ValidateBIP122Address"
    /\ UNCHANGED <<registry, regLog, acct, tgt, old, got, chainVars, setVars, colVars, concVars>>

CallValidateBIP122AddressLoose ==
    /\ \E a \in BIP122ValidationAddresses :
          /\ arg' = [network |-> EmptyString, address |-> a]
          /\ err' = ValidateBIP122AddressLoose(a)
    /\ op' = "ValidateBIP122AddressLoose"
    /\ UNCHANGED <<registry, regLog, acct, tgt, old, got, chainVars, setVars, colVars, concVars>>

NextBIP122 ==
    \/ CallValidateBIP122Address
    \/ CallValidateBIP122AddressLoose

SpecBIP122 == Init /\ [][NextBIP122]_vars

\* ------------------------------------------------------------------------
\* The decoders a specialized AccountID inherits from the GenericAccountID
\* it embeds, called on accounts from Parse, the constructors and the setters
\* ------------------------------------------------------------------------
\* a CAIP-10 text of another namespace, one of the eip155 namespace, and one
\* that is no CAIP-10 text
PromotedTexts ==
    { CAIP10(strCosmos, strHub, strAddr1),
      CAIP10(NamespaceEIP155, str007, str0xabc),
      strInvalid }

Specialized(a) == a.variant \in {"eip155", "solana", "bip122"}

\* the decoder has run on the GenericAccountID acct embeds
PromotedDecoded(name, r) ==
    /\ acct' = r.val
    /\ before' = acct
    /\ ret' = NilAccount
    /\ err' = r.err
    /\ op' = name
    /\ got' = NoGot
    /\ UNCHANGED <<registry, regLog, tgt, old, chainVars, colVars, concVars>>

CallPromotedUnmarshalText ==
    /\ Specialized(acct)
    /\ \E data \in PromotedTexts :
          /\ arg' = data
          /\ \E r \in { UnmarshalText(acct, data) } : PromotedDecoded("promoted UnmarshalText", r)

CallPromotedUnmarshalBinary ==
    /\ Specialized(acct)
    /\ \E data \in { MarshalBinary(NewGeneric(strCosmos, strHub, strAddr1).val), <<0, 0, 0>> } :
          /\ arg' = data
          /\ \E r \in { UnmarshalBinary(acct, data) } : PromotedDecoded("promoted UnmarshalBinary", r)

CallPromotedUnmarshalJSON ==
    /\ Specialized(acct)
    /\ \E data \in { JSONNull, <<Quote>> \o CAIP10(strCosmos, strHub, strAddr1) \o <<Quote>> } :
          /\ arg' = data
          /\ \E r \in { UnmarshalJSON(acct, data) } : PromotedDecoded("promoted UnmarshalJSON", r)

CallPromotedUnmarshalCBOR ==
    /\ Specialized(acct)
    /\ \E data \in { CBORMarshalString(CAIP10(strCosmos, strHub, strAddr1)), <<1>> } :
          /\ arg' = data
          /\ \E r \in { UnmarshalCBOR(acct, data) } : PromotedDecoded("promoted UnmarshalCBOR", r)

CallPromotedScan ==
    /\ Specialized(acct)
    /\ \E src \in { SQLNil, SQLString(CAIP10(strCosmos, strHub, strAddr1)), SQLInt64 } :
          /\ arg' = src
          /\ \E r \in { Scan(acct, src) } : PromotedDecoded("promoted Scan", r)

NextTyped ==
    \/ CallParse
    \/ CallNewBIP122
    \/ CallSetChainID
    \/ CallBIP122SetAddress
    \/ KeepReturned
    \/ CallPromotedUnmarshalText
    \/ CallPromotedUnmarshalBinary
    \/ CallPromotedUnmarshalJSON
    \/ CallPromotedUnmarshalCBOR
    \/ CallPromotedScan

SpecTyped == Init /\ [][NextTyped]_vars

\* ------------------------------------------------------------------------
\* MarshalBinary of what Parse and the constructors return
\* ------------------------------------------------------------------------
\* "-" and 300 times "1": a negative chain id of 301 characters
strLongNegative == <<45>> \o [k \in 1..300 |-> 49]

\* Parse("eip155:-11...1:")
CallParseLongReference ==
    \E s \in { CAIP10(NamespaceEIP155, strLongNegative, <<>>) } :
        /\ arg' = s
        /\ \E r \in { ParseWith(registry, s) } : Returned("Parse", r)

\* got = acct.MarshalBinary()
CallMarshalBinary ==
    /\ got' = MarshalBinary(acct)
    /\ op' = "MarshalBinary"
    /\ arg' = <<>>
    /\ err' = NoErr
    /\ UNCHANGED <<registry, regLog, acct, tgt, old, chainVars, setVars, colVars, concVars>>

NextBinary ==
    \/ CallRegisterParser
    \/ CallParse
    \/ CallParseLongReference
    \/ CallNewGeneric
    \/ CallNewEIP155
    \/ CallNewEIP155FromHex
    \/ CallNewSolana
    \/ CallNewSolanaFromBase58
    \/ CallNewBIP122
    \/ CallNewBIP122Network
    \/ CallMarshalBinary

SpecBinary == Init /\ [][NextBinary]_vars

\* ------------------------------------------------------------------------
\* SplitCAIP10 on every string of letters and colons up to a length
\* ------------------------------------------------------------------------
\* the longest string SplitCAIP10 is called with
MaxSplitLen == 6

\* "a" and ":"
SplitAlphabet == {97, Colon}

SplitInputs == UNION { [1..k -> SplitAlphabet] : k \in 0..MaxSplitLen }

CallSplitCAIP10 ==
    /\ \E s \in SplitInputs :
          /\ arg' = s
          /\ split' = SplitCAIP10(s)
          /\ err' = SplitCAIP10(s).err
    /\ op' = "SplitCAIP10"
    /\ UNCHANGED <<registry, regLog, acct, tgt, old, got, chain, chainOld, setVars, colVars, concVars>>

NextSplit == CallSplitCAIP10

SpecSplit == Init /\ [][NextSplit]_vars

\* ------------------------------------------------------------------------
\* Goroutines.  The package has no lock: RegisterParser's map write and
\* the map read of every other operation are plain accesses.  A write takes
\* two steps (it is in progress in between), a reading call three: the
\* code before the read, the read, and the code after it.  A read while a
\* write is in progress is a data race: it gives the old entry or the new
\* one, or the runtime stops the program ("concurrent map read and map
\* write").
\* ------------------------------------------------------------------------
\* the calls the goroutines make
ConcurrentCalls ==
    { ReadCall("Parse", <<CAIP10(strUnknown, strOne, strAddr)>>),
      ReadCall("Parse", <<CAIP2(NamespaceEIP155, strOne)>>),
      ReadCall("MustParse", <<CAIP10(NamespaceEIP155, strOne, strEthAddr)>>),
      ReadCall("ParseWithNamespace", <<NamespaceBIP122, BitcoinMainnet, strBc1qtest>>),
      ReadCall("ParseWithChainID", <<CAIP2(strUnknown, strOne), strAddr>>),
      ReadCall("ChainID.ToAccountID", <<strUnknown, <<>>, strAddr>>),
      ReadCall("AccountIDColumns.ToAccountID", <<NamespaceBIP122, <<>>, strP2SH>>),
      ReadCall("AccountIDColumnsCompact.ToAccountID", <<<<>>, <<>>>>),
      ReadCall("AccountIDColumnsCompact.ToAccountID", <<CAIP2(strUnknown, strRef), strAddr1>>),
      ReadCall("ToNative", <<strUnknown, <<>>, strAddr>>),
      ReadCall("ToNative", <<>>),
      ReadCall("GetParser", <<strUnknown>>),
      ReadCall("Validate", <<strUnknown, <<>>, strAddr>>) }

\* the parsers registered while goroutines run
ConcurrentParsers == { NewGenericParser(strUnknown, 1), NewGenericParser(NamespaceBIP122, 3) }

\* goroutine q has read the registry
HasRead(q) ==
    \/ pc[q] \in {"read", "crashed"}
    \/ pc[q] = "done" /\ ~BeforeRead(req[q]).done

seqVars == <<acct, tgt, old, op, arg, err, got, chainVars, setVars, colVars>>

\* RegisterParser starts to write registry[p.Namespace()]
WriteBegin ==
    /\ wr = NilParser
    /\ Len(regLog) < MaxRegistrations
    /\ \E p \in ConcurrentParsers : wr' = p
    /\ unsync' = (unsync \/ \E q \in Procs : HasRead(q))
    /\ UNCHANGED <<registry, regLog, pc, req, seen, res, seqVars>>

\* and has written it
WriteEnd ==
    /\ wr # NilParser
    /\ registry' = RegistryPut(registry, wr)
    /\ regLog' = Append(regLog, wr)
    /\ wr' = NilParser
    /\ UNCHANGED <<pc, req, seen, res, unsync, seqVars>>

\* goroutine q makes a call and runs its code up to the read
CallBegin(q) ==
    /\ pc[q] = "idle"
    /\ \E c \in ConcurrentCalls :
          /\ req' = [req EXCEPT ![q] = c]
          /\ \E b \in { BeforeRead(c) } :
                IF b.done
                THEN /\ pc' = [pc EXCEPT ![q] = "done"]
                     /\ res' = [res EXCEPT ![q] = b.res]
                ELSE /\ pc' = [pc EXCEPT ![q] = "begun"]
                     /\ UNCHANGED res
    /\ UNCHANGED <<registry, regLog, seen, wr, unsync, seqVars>>

\* p, ok := registry[ns] with no write in progress
ReadRegistry(q) ==
    /\ pc[q] = "begun"
    /\ wr = NilParser
    /\ seen' = [seen EXCEPT ![q] = RegistryGet(registry, BeforeRead(req[q]).ns)]
    /\ pc' = [pc EXCEPT ![q] = "read"]
    /\ UNCHANGED <<registry, regLog, req, res, wr, unsync, seqVars>>

\* p, ok := registry[ns] while a write is in progress
ReadRegistryRacing(q) ==
    /\ pc[q] = "begun"
    /\ wr # NilParser
    /\ unsync' = TRUE
    /\ \/ /\ \E g \in { RegistryGet(registry, BeforeRead(req[q]).ns),
                        RegistryGet(RegistryPut(registry, wr), BeforeRead(req[q]).ns) } :
                seen' = [seen EXCEPT ![q] = g]
          /\ pc' = [pc EXCEPT ![q] = "read"]
       \/ /\ pc' = [pc EXCEPT ![q] = "crashed"]
          /\ UNCHANGED seen
    /\ UNCHANGED <<registry, regLog, req, res, wr, seqVars>>

\* goroutine q runs the code after the read and returns
CallFinish(q) ==
    /\ pc[q] = "read"
    /\ res' = [res EXCEPT ![q] = AfterRead(req[q], BeforeRead(req[q]), seen[q])]
    /\ pc' = [pc EXCEPT ![q] = "done"]
    /\ UNCHANGED <<registry, regLog, req, seen, wr, unsync, seqVars>>

NextConcurrent ==
    \/ WriteBegin
    \/ WriteEnd
    \/ \E q \in Procs : CallBegin(q)
    \/ \E q \in Procs : ReadRegistry(q)
    \/ \E q \in Procs : ReadRegistryRacing(q)
    \/ \E q \in Procs : CallFinish(q)

\* the runs in which goroutines call the reading operations while parsers
\* are registered
SpecConcurrent == Init /\ [][NextConcurrent]_vars

\* ------------------------------------------------------------------------
\* The properties
\* ------------------------------------------------------------------------
SameFields(a, b) ==
    /\ a.namespace = b.namespace
    /\ a.reference = b.reference
    /\ a.address = b.address

\* one or two of the three fields of a are empty
PartiallyEmpty(a) ==
    /\ a.variant # "nil"
    /\ a.namespace = <<>> \/ a.reference = <<>> \/ a.address = <<>>
    /\ ~(a.namespace = <<>> /\ a.reference = <<>> /\ a.address = <<>>)

\* C1: whatever Parse returned without error, parsing its String() again
\* (with the registry as it is) succeeds and gives an AccountID with the same
\* namespace, reference and address, which Equal reports equal.
C1_ParseOfStringIsSame ==
    (op = "Parse" /\ err = NoErr) =>
        LET again == ParseWith(registry, String(acct))
        IN  /\ again.err = NoErr
            /\ SameFields(again.val, acct)
            /\ Equal(acct, again.val)

\* Parse succeeded on a string that is not the canonical form of its result
C1_Witness ==
    /\ op = "Parse"
    /\ err = NoErr
    /\ acct.variant = "eip155"
    /\ String(acct) # arg

\* C8: an AccountID is zero exactly when it is nil or its three fields are
\* empty, String() is empty exactly for the zero ones, and an AccountID with
\* one or two empty fields never passes Validate.
C8_PartiallyEmptyIsInvalid ==
    /\ IsZero(acct) <=>
          (acct.variant = "nil"
             \/ (acct.namespace = <<>> /\ acct.reference = <<>> /\ acct.address = <<>>))
    /\ (String(acct) = <<>>) <=> IsZero(acct)
    /\ PartiallyEmpty(acct) => Validate(acct) # NoErr

\* C9: Parse(s) returns the error of SplitCAIP10(s) if there is one, else
\* what the parser registered for the namespace returns from ParseAddress,
\* else what NewGeneric returns; "eip155:1" fails with ErrInvalidFormat, ""
\* with ErrEmptyValue, and "unknown:1:addr" gives a GenericAccountID while
\* no parser is registered for "unknown".
C9_ParseDispatch ==
    op = "Parse" =>
        LET sp == SplitCAIP10(arg)
            g == RegistryGet(registry, sp.namespace)
            expected == IF sp.err # NoErr THEN Result(sp.err, NilAccount)
                        ELSE IF g.ok THEN ParseAddress(g.p, sp.reference, sp.address)
                        ELSE NewGeneric(sp.namespace, sp.reference, sp.address)
        IN  /\ err = expected.err
            /\ acct = expected.val
            /\ arg = CAIP2(NamespaceEIP155, strOne) => err = ErrInvalidFormat
            /\ arg = <<>> => err = ErrEmptyValue
            /\ (arg = CAIP10(strUnknown, strOne, strAddr)
                  /\ \A k \in 1..Len(regLog) : ParserNamespace(regLog[k]) # strUnknown)
               => /\ err = NoErr
                  /\ acct = newGenericUnchecked(strUnknown, strOne, strAddr)
            /\ (sp.err = NoErr /\ sp.namespace = NamespaceBIP122
                  /\ \A k \in 1..Len(regLog) : regLog[k].kind # "generic")
               => /\ err = NoErr
                  /\ acct.variant = "bip122"

\* Parse of a string with an unregistered namespace gave a GenericAccountID
C9_Witness ==
    /\ op = "Parse"
    /\ arg = CAIP10(strUnknown, strOne, strAddr)
    /\ ~RegistryGet(registry, strUnknown).ok
    /\ err = NoErr
    /\ acct.variant = "generic"

\* the places of regLog where a parser of namespace ns was registered
RegisteredAt(log, ns) == { k \in 1..Len(log) : ParserNamespace(log[k]) = ns }

\* the parser most recently registered for ns, for a namespace that has one
LastRegistered(log, ns) ==
    log[CHOOSE k \in RegisteredAt(log, ns) : \A m \in RegisteredAt(log, ns) : m <= k]

\* every namespace a parser can be registered or asked for
AllNamespaces == NamespaceInputs \cup { ParserNamespace(p) : p \in ParserInputs }
                    \cup { NamespaceEIP155, NamespaceSolana, NamespaceBIP122, strCosmos }

\* C10: GetParser(ns) gives the parser most recently registered for ns, and
\* (nil, false) if there was none; a registration changes the entry of no
\* other namespace, and registering again the parser a namespace has changes
\* nothing.
C10_LastRegistrationWins ==
    /\ \A ns \in AllNamespaces :
          RegistryGet(registry, ns) =
              IF RegisteredAt(regLog, ns) = {} THEN [p |-> NilParser, ok |-> FALSE]
              ELSE [p |-> LastRegistered(regLog, ns), ok |-> TRUE]
    /\ op = "GetParser" =>
          got = IF RegisteredAt(regLog, arg) = {} THEN [p |-> NilParser, ok |-> FALSE]
                ELSE [p |-> LastRegistered(regLog, arg), ok |-> TRUE]
    /\ \A p \in ParserInputs :
          LET after == RegistryPut(registry, p)
          IN  /\ \A ns \in AllNamespaces \ {ParserNamespace(p)} :
                    RegistryGet(after, ns) = RegistryGet(registry, ns)
              /\ RegistryGet(registry, ParserNamespace(p)) = [p |-> p, ok |-> TRUE]
                    => after = registry

\* GetParser returned the second of two parsers registered for "unknown"
C10_Witness ==
    /\ op = "GetParser"
    /\ arg = strUnknown
    /\ got = [p |-> NewGenericParser(strUnknown, 2), ok |-> TRUE]
    /\ \E k \in 1..Len(regLog) : regLog[k] = NewGenericParser(strUnknown, 1)

DecodeOps == { "UnmarshalText", "UnmarshalBinary", "UnmarshalJSON", "UnmarshalCBOR", "Scan" }

\* C2: for every non-zero AccountID the constructors return, each decoder,
\* called on a fresh GenericAccountID with what the matching encoder gives,
\* succeeds and leaves the namespace, reference and address of the AccountID.
C2_EncodingsDecodeToSame ==
    \A a \in AccountPool :
        (~IsZero(a) /\ IsZero(old)) =>
            /\ (op = "UnmarshalText" /\ arg = MarshalText(a))
                  => (err = NoErr /\ SameFields(tgt, a))
            /\ (op = "UnmarshalBinary" /\ arg = MarshalBinary(a))
                  => (err = NoErr /\ SameFields(tgt, a))
            /\ (op = "UnmarshalJSON" /\ arg = MarshalJSON(a))
                  => (err = NoErr /\ SameFields(tgt, a))
            /\ (op = "UnmarshalCBOR" /\ arg = MarshalCBOR(a))
                  => (err = NoErr /\ SameFields(tgt, a))
            /\ (op = "Scan" /\ arg = Value(a))
                  => (err = NoErr /\ SameFields(tgt, a))

\* C3: UnmarshalText of what MarshalText gives for the zero value, and
\* UnmarshalBinary of what MarshalBinary gives for it, succeed on a fresh
\* GenericAccountID and leave it zero.
C3_ZeroValueRoundTrip ==
    IsZero(old) =>
        /\ (op = "UnmarshalText" /\ arg = MarshalText(ZeroGeneric))
              => (err = NoErr /\ IsZero(tgt))
        /\ (op = "UnmarshalBinary" /\ arg = MarshalBinary(ZeroGeneric))
              => (err = NoErr /\ IsZero(tgt))

\* an address longer than 255 bytes: "1" 300 times
LongAddress == [k \in 1..300 |-> 49]

\* b is the three lengths, the address's in two bytes big-endian, and then
\* the namespace, the reference and the address of a
BinaryLayout(a, b) ==
    LET nsLen == Len(a.namespace)
        refLen == Len(a.reference)
        addrLen == Len(a.address)
    IN  /\ Len(b) = 4 + nsLen + refLen + addrLen
        /\ b[1] = nsLen
        /\ b[2] = refLen
        /\ b[3] = addrLen \div 256
        /\ b[4] = addrLen % 256
        /\ SubSeq(b, 5, 4 + nsLen) = a.namespace
        /\ SubSeq(b, 5 + nsLen, 4 + nsLen + refLen) = a.reference
        /\ SubSeq(b, 5 + nsLen + refLen, Len(b)) = a.address

\* data is shorter than its header, or its length is not the one its header
\* gives
BinaryLengthMismatch(data) ==
    \/ Len(data) < 4
    \/ Len(data) # 4 + data[1] + data[2] + (256 * data[3] + data[4])

\* C4: MarshalBinary gives the lengths of namespace and reference in one
\* byte each, the length of the address in two bytes big-endian, and the
\* three fields (four zero bytes for nil and for the zero value);
\* UnmarshalBinary returns ErrInvalidFormat for every input shorter than 4
\* bytes or of another length than its header gives.
C4_BinaryLayout ==
    /\ \A a \in AccountPool \cup { tgt, NewBIP122(BitcoinMainnet, LongAddress) } :
          /\ a.variant # "nil" => BinaryLayout(a, MarshalBinary(a))
          /\ IsZero(a) => MarshalBinary(a) = <<0, 0, 0, 0>>
    /\ (op = "UnmarshalBinary" /\ BinaryLengthMismatch(arg))
          => (err = ErrInvalidFormat /\ tgt = old)

\* UnmarshalBinary refused an input whose address length, read big-endian,
\* is not the length of what follows
C4_Witness ==
    /\ op = "UnmarshalBinary"
    /\ Len(arg) = 18
    /\ arg[3] = 5
    /\ arg[4] = 0
    /\ err = ErrInvalidFormat
    /\ ~IsZero(tgt)

\* C5: a decoder that returns an error leaves the receiver as it was; a
\* JSON value that is not a quoted string (and not null) gives
\* ErrInvalidFormat, a Scan source that is no nil, string or []byte an error.
C5_FailedDecodeLeavesReceiver ==
    /\ (op \in DecodeOps /\ err # NoErr) => tgt = old
    /\ (op = "UnmarshalJSON" /\ arg # JSONNull
          /\ (Len(arg) < 2 \/ arg[1] # Quote \/ arg[Len(arg)] # Quote))
          => err = ErrInvalidFormat
    /\ (op = "Scan" /\ arg.type \notin {"nil", "string", "bytes"}) => err = ErrScanType

\* a decoder called on a non-zero receiver split its input and then failed
\* to validate the parts
C5_Witness ==
    /\ op \in DecodeOps
    /\ err \in {ErrInvalidNamespace, ErrInvalidReference, ErrInvalidAddress}
    /\ ~IsZero(old)
    /\ tgt = old

\* C6: MarshalJSON of the zero value is "" and its Value is nil;
\* UnmarshalJSON of null and of "", and Scan of nil, of the empty string and
\* of an empty []byte, succeed and leave the receiver zero, whatever it held.
C6_EmptyPayloadIsZero ==
    /\ \A a \in {ZeroGeneric, NilAccount, tgt} :
          IsZero(a) => (MarshalJSON(a) = <<Quote, Quote>> /\ Value(a) = SQLNil)
    /\ (op = "UnmarshalJSON" /\ arg \in {JSONNull, <<Quote, Quote>>})
          => (err = NoErr /\ IsZero(tgt))
    /\ (op = "Scan" /\ arg \in {SQLNil, SQLString(<<>>), SQLBytes(<<>>)})
          => (err = NoErr /\ IsZero(tgt))

\* Scan of nil made a non-zero receiver zero
C6_Witness ==
    /\ op = "Scan"
    /\ arg = SQLNil
    /\ ~IsZero(old)
    /\ err = NoErr
    /\ IsZero(tgt)

C11_RegistryWrittenOnlyByRegisterParser ==
    /\ [][registry' # registry =>
            /\ wr # NilParser
            /\ wr' = NilParser
            /\ registry' = RegistryPut(registry, wr)
            /\ pc' = pc]_vars
    /\ [](~unsync =>
            \A q \in Procs : pc[q] = "done" => res[q] = Alone(registry, req[q]))

\* a call that read the registry has returned while another is between its
\* read and its return, after a registration that completed before both
C11_Witness ==
    /\ ~unsync
    /\ Len(regLog) > Len(InitLog)
    /\ pc[1] = "done" /\ HasRead(1)
    /\ req[1].fn = "Parse" /\ res[1].err = NoErr /\ res[1].val.variant = "generic"
    /\ pc[2] = "read"

\* the number of colons of s
Colons(s) == Cardinality({ k \in 1..Len(s) : s[k] = Colon })

\* ------------------------------------------------------------------------
\* C12: SplitCAIP10 splits on the first two colons only: the empty string
\* gives ErrEmptyValue, a non-empty string with fewer than two colons gives
\* ErrInvalidFormat, and any other string gives a namespace and a reference
\* without a colon and an address such that namespace + ":" + reference +
\* ":" + address is the string.
\* ------------------------------------------------------------------------
C12_SplitOnFirstTwoColons ==
    op = "SplitCAIP10" =>
        /\ arg = <<>> => err = ErrEmptyValue
        /\ arg # <<>> /\ Colons(arg) < 2 => err = ErrInvalidFormat
        /\ Colons(arg) >= 2 =>
              /\ err = NoErr
              /\ Colons(split.namespace) = 0
              /\ Colons(split.reference) = 0
              /\ split.namespace \o <<Colon>> \o split.reference \o <<Colon>>
                    \o split.address = arg

\* a string with more than two colons was split, its address keeping one
C12_Witness ==
    /\ op = "SplitCAIP10"
    /\ err = NoErr
    /\ Colons(arg) > 2
    /\ Colons(split.address) > 0
    /\ split.namespace # <<>>

\* the namespace and the reference of a string with one colon
BeforeColon(s) == SubSeq(s, 1, ScanColon(s, 1) - 1)
AfterColon(s) == SubSeq(s, ScanColon(s, 1) + 1, Len(s))

\* the rule the reference of a ChainID has to pass in a namespace: a decimal
\* unsigned integer for eip155, 32 base58 characters for solana, 32 lower
\* case hex characters for bip122, the generic reference grammar otherwise
ReferenceRule(ns, ref) ==
    IF ns = NamespaceEIP155 THEN Len(ref) >= 1 /\ \A k \in 1..Len(ref) : ref[k] \in Digit
    ELSE IF ns = NamespaceSolana THEN Len(ref) = 32 /\ \A k \in 1..32 : ref[k] \in Base58Set
    ELSE IF ns = NamespaceBIP122
         THEN Len(ref) = 32 /\ \A k \in 1..32 : ref[k] \in (Digit \cup (97..102))
    ELSE ReferenceRegex(ref)

\* ------------------------------------------------------------------------
\* C13: ParseChainID(s) succeeds exactly when s has exactly one colon, its
\* namespace is eip155, solana or bip122 or has been registered with
\* RegisterParser, and the reference passes the rule of the namespace; any
\* other colon count gives ErrInvalidFormat, any other namespace
\* ErrInvalidNamespace, a reference breaking the rule ErrInvalidReference.
\* ------------------------------------------------------------------------
C13_ParseChainIDAcceptance ==
    op = "ParseChainID" =>
        LET known == { NamespaceEIP155, NamespaceSolana, NamespaceBIP122 }
                        \cup { ParserNamespace(regLog[k]) : k \in 1..Len(regLog) }
        IN  IF Colons(arg) # 1 THEN err = ErrInvalidFormat
            ELSE IF BeforeColon(arg) \notin known THEN err = ErrInvalidNamespace
            ELSE IF ~ReferenceRule(BeforeColon(arg), AfterColon(arg))
                 THEN err = ErrInvalidReference
            ELSE err = NoErr /\ chain = ChainID(BeforeColon(arg), AfterColon(arg))

\* ------------------------------------------------------------------------
\* C14: every ChainID that passes Validate, and the zero ChainID, comes
\* back with the same Namespace and Reference from UnmarshalText of its
\* MarshalText, UnmarshalBinary of its MarshalBinary, UnmarshalJSON of its
\* MarshalJSON and Scan of its Value, without error; a ChainID with exactly
\* one empty field is not zero, and the zero ChainID fails Validate with
\* ErrEmptyValue.
\* ------------------------------------------------------------------------
C14_ChainIDRoundTrip ==
    /\ \A c \in ChainPool :
          (ChainIDValidate(c) = NoErr \/ c = ZeroChainID) /\
          (\/ op = "ChainID.UnmarshalText" /\ arg = ChainIDMarshalText(c)
           \/ op = "ChainID.UnmarshalBinary" /\ arg = ChainIDMarshalBinary(c)
           \/ op = "ChainID.UnmarshalJSON" /\ arg = ChainIDMarshalJSON(c)
           \/ op = "ChainID.Scan" /\ arg = ChainIDValue(c))
          => /\ err = NoErr
             /\ chain.Namespace = c.Namespace
             /\ chain.Reference = c.Reference
    /\ (chain.Namespace = <<>>) # (chain.Reference = <<>>) => ~ChainIDIsZero(chain)
    /\ ChainIDIsZero(chain) => ChainIDValidate(chain) = ErrEmptyValue

\* the JSON encoding of a valid ChainID was decoded into a receiver that
\* held another value
C14_Witness ==
    /\ op = "ChainID.UnmarshalJSON"
    /\ chainOld # chain
    /\ ~ChainIDIsZero(chainOld)
    /\ ChainIDValidate(chain) = NoErr
    /\ arg = ChainIDMarshalJSON(chain)
    /\ chain.Namespace = NamespaceSolana

\* the text of s before its second colon
CAIP2Prefix(s) ==
    LET i == ScanColon(s, 1)
        j == ScanColon(s, i + 1)
    IN  SubSeq(s, 1, j - 1)

\* ------------------------------------------------------------------------
\* C15: for every account a that Parse returned without error, ParseChainID
\* of the text of a.String() before its second colon succeeds and returns a
\* ChainID equal to a.ChainID(), and a.ChainID().Validate() returns nil.
\* ------------------------------------------------------------------------
C15_ChainIDOfParsedAccount ==
    op = "Parse" /\ err = NoErr =>
        LET r == ParseChainID(CAIP2Prefix(String(acct)))
        IN  /\ r.err = NoErr
            /\ ChainIDEqual(r.val, AccountChainID(acct))
            /\ ChainIDValidate(AccountChainID(acct)) = NoErr

\* the decimal digits of a chain id that is not negative, whatever its type
GivenDigits(c) ==
    IF "mag" \in DOMAIN c THEN c.mag
    ELSE IF "digits" \in DOMAIN c THEN StripZeros(c.digits)
    ELSE NatDigits(c.n)

GivenNegative(c) ==
    IF "mag" \in DOMAIN c THEN c.neg
    ELSE IF "digits" \in DOMAIN c THEN FALSE
    ELSE c.n < 0

\* the digits of min(c, 10^32 - 1): a number of more than 32 digits is at
\* least 10^32
ClampedDigits(d) == IF Len(d) > 32 THEN [k \in 1..32 |-> 57] ELSE d

\* ------------------------------------------------------------------------
\* C16: for every chain id c >= 0 given to NewEIP155, NewEIP155FromHex or
\* SetChainID, of any integer type, the EIP155ChainID() of the result is
\* min(c, 10^32 - 1) and its Reference() the decimal string of that value:
\* 10^32 and 10^50 give 10^32 - 1, and 10^32 - 1 stays, with a reference of
\* 32 characters.
\* ------------------------------------------------------------------------
C16_ChainIDClamped ==
    LET made == IF op = "SetChainID" THEN ret ELSE acct
    IN  /\ op \in {"NewEIP155", "NewEIP155FromHex", "SetChainID"}
        /\ made.variant # "nil"
        /\ ~GivenNegative(arg)
        => /\ EIP155ChainID(made) = [neg |-> FALSE, mag |-> ClampedDigits(GivenDigits(arg))]
           /\ made.reference = ClampedDigits(GivenDigits(arg))
           /\ Len(made.reference) <= 32
           /\ (arg \in {BigInt(FALSE, strTenPow32), BigInt(FALSE, strTenPow50)}
                 => made.reference = strTenPow32Minus1)

\* SetChainID was given 10^50 and the account it returned has 10^32 - 1
C16_Witness ==
    /\ op = "SetChainID"
    /\ arg = BigInt(FALSE, strTenPow50)
    /\ before.reference = strOne
    /\ ret.reference = strTenPow32Minus1
    /\ EIP155ChainID(ret).mag = strTenPow32Minus1

\* ------------------------------------------------------------------------
\* C17: a setter leaves its receiver as it was; the account it returns has
\* the new field and the other field of the receiver (the address after
\* SetChainID, the chain id or network after SetAddress and SetAccount);
\* called on a nil receiver it returns nil.
\* ------------------------------------------------------------------------
C17_SettersLeaveReceiver ==
    op \in {"SetChainID", "SetAddress", "BIP122.SetAddress", "SetAccount"} =>
        /\ acct = before
        /\ before.variant = "nil" => ret = NilAccount
        /\ before.variant # "nil" =>
              /\ ret.variant = before.variant
              /\ ret.namespace = before.namespace
              /\ op = "SetChainID" =>
                    /\ ret.chainID = (IF BigCmp(arg, maxEIP155ChainID) > 0
                                      THEN maxEIP155ChainID ELSE arg)
                    /\ ret.reference = BigString(ret.chainID)
                    /\ ret.ethAddr = before.ethAddr
                    /\ ret.address = before.address
              /\ op = "SetAddress" =>
                    /\ ret.ethAddr = arg
                    /\ ret.address = AddressHex(arg)
                    /\ ret.chainID = before.chainID
                    /\ ret.reference = before.reference
              /\ op = "BIP122.SetAddress" =>
                    /\ ret.address = arg
                    /\ ret.network = before.network
                    /\ ret.reference = before.reference
              /\ op = "SetAccount" =>
                    /\ ret.pubkey = arg
                    /\ ret.address = PublicKeyString(arg)
                    /\ ret.reference = before.reference

\* SetAddress returned an account with another address than its receiver's
C17_Witness ==
    /\ op = "SetAddress"
    /\ before.variant = "eip155"
    /\ acct = before
    /\ ret.ethAddr # acct.ethAddr
    /\ ret.chainID = acct.chainID
    /\ acct.reference = strTenPow32Minus1

\* ------------------------------------------------------------------------
\* C18: Validate of a nil receiver is ErrEmptyValue; else a namespace that
\* is not 3 to 8 characters of a-z, 0-9 and '-' gives ErrInvalidNamespace
\* whatever the reference and the address; else, the namespace being none of
\* eip155, solana and bip122, a reference that is not 1 to 32 characters of
\* letters, digits, '-' and '_' gives ErrInvalidReference, else an address
\* that is not 1 to 128 characters of letters, digits, '-', '.' and '%'
\* gives ErrInvalidAddress, else nil. NewGeneric returns the error of
\* Validate, and no value when there is one.
\* ------------------------------------------------------------------------
C18_ValidateErrorOrder ==
    LET letters == (97..122) \cup (65..90)
        digits == 48..57
        among(s, class, lo, hi) ==
            Len(s) \in lo..hi /\ \A k \in 1..Len(s) : s[k] \in class
        expected(a) ==
            IF ~among(a.namespace, (97..122) \cup digits \cup {45}, 3, 8)
            THEN ErrInvalidNamespace
            ELSE IF ~among(a.reference, letters \cup digits \cup {45, 95}, 1, 32)
            THEN ErrInvalidReference
            ELSE IF ~among(a.address, letters \cup digits \cup {45, 46, 37}, 1, 128)
            THEN ErrInvalidAddress
            ELSE NoErr
        builtin(a) ==
            /\ among(a.namespace, (97..122) \cup digits \cup {45}, 3, 8)
            /\ a.namespace \in {NamespaceEIP155, NamespaceSolana, NamespaceBIP122}
    IN  /\ op = "Validate" /\ acct.variant = "nil" => err = ErrEmptyValue
        /\ op = "Validate" /\ acct.variant # "nil" /\ ~builtin(acct) => err = expected(acct)
        /\ op = "NewGeneric" =>
              LET a == newGenericUnchecked(arg[1], arg[2], arg[3])
              IN  /\ err = Validate(a)
                  /\ ~builtin(a) => err = expected(a)
                  /\ acct = (IF err = NoErr THEN a ELSE NilAccount)

\* Validate of an account with a good namespace, a bad reference and a bad
\* address gave ErrInvalidReference
C18_Witness ==
    /\ op = "Validate"
    /\ acct.namespace = strCosmos
    /\ acct.reference = strAColonB
    /\ acct.address = strInvalidBang
    /\ err = ErrInvalidReference

\* s is 40 hex digits, with or without 0x in front
WellFormedHexAddress(s) ==
    LET hex == (48..57) \cup (97..102) \cup (65..70)
        body == IF Len(s) >= 2 /\ s[1] = 48 /\ s[2] \in {120, 88} THEN SubSeq(s, 3, Len(s)) ELSE s
    IN  Len(body) = 40 /\ \A k \in 1..40 : body[k] \in hex

Decimal(s) == Len(s) >= 1 /\ \A k \in 1..Len(s) : s[k] \in 48..57

\* ------------------------------------------------------------------------
\* C19: in the eip155 namespace, Validate of a GenericAccountID whose
\* reference is decimal and whose address is not a well-formed hex address
\* returns an error, and so does Parse of its CAIP-10 string; a reference
\* that is not decimal gives ErrInvalidReference.
\* ------------------------------------------------------------------------
C19_EIP155MalformedAddressRejected ==
    LET given == IF op = "Parse" THEN SplitCAIP10(arg)
                 ELSE SplitResult(NoErr, acct.namespace, acct.reference, acct.address)
    IN  /\ \/ op = "Validate" /\ acct.variant = "generic"
           \/ op = "Parse"
        /\ given.err = NoErr
        /\ given.namespace = NamespaceEIP155
        => /\ Decimal(given.reference) /\ ~WellFormedHexAddress(given.address) => err # NoErr
           /\ given.reference # <<>> /\ ~Decimal(given.reference) /\ given.reference[1] \notin {43, 45}
                 => err = ErrInvalidReference

\* ------------------------------------------------------------------------
\* C20: every account that Parse, ParseWithNamespace, ParseWithChainID,
\* ChainID.ToAccountID, AccountIDColumns.ToAccountID or
\* AccountIDColumnsCompact.ToAccountID returns without error passes
\* Validate, in every namespace.
\* ------------------------------------------------------------------------
C20_ParsedAccountsValidate ==
    /\ op \in {"Parse", "ParseWithNamespace", "ParseWithChainID", "ChainID.ToAccountID",
               "AccountIDColumns.ToAccountID", "AccountIDColumnsCompact.ToAccountID"}
    /\ err = NoErr
    => Validate(acct) = NoErr

\* the concrete variant the parser registered for a namespace builds
\* ("generic" when there is none)
VariantOf(reg, ns) ==
    IF ns \notin DOMAIN reg THEN "generic"
    ELSE IF reg[ns].kind = "generic" THEN "generic"
    ELSE reg[ns].kind

\* ------------------------------------------------------------------------
\* C21: for every account a that Parse returned, a.ToColumns().ToAccountID()
\* and a.ToColumnsCompact().ToAccountID() succeed and return an account with
\* the namespace, reference and address of a and of the concrete variant of
\* a: the specialized variant when the namespace has a registered parser, a
\* GenericAccountID otherwise.
\* ------------------------------------------------------------------------
C21_ColumnsRoundTrip ==
    /\ acct.variant # "nil"
    /\ \/ op = "AccountIDColumns.ToAccountID" /\ cols = ToColumns(acct)
       \/ op = "AccountIDColumnsCompact.ToAccountID" /\ cols = ToColumnsCompact(acct)
    => /\ err = NoErr
       /\ SameFields(ret, acct)
       /\ ret.variant = acct.variant
       /\ ret.variant = VariantOf(registry, acct.namespace)

\* the compact columns of a parsed bip122 account gave a bip122 account again
C21_Witness ==
    /\ op = "AccountIDColumnsCompact.ToAccountID"
    /\ acct.variant = "bip122"
    /\ cols = ToColumnsCompact(acct)
    /\ ret = acct

\* ------------------------------------------------------------------------
\* C22: ToFull of a compact value that is not zero and whose ChainID is not
\* a valid CAIP-2 string (no colon, more than one colon, empty with an
\* address, or an empty namespace or reference) fails with
\* ErrInvalidFormat; of the zero compact value it returns the zero columns
\* without error; otherwise it returns columns whose Namespace, ":" and
\* Reference make the ChainID, with the Address of the compact value.
\* ------------------------------------------------------------------------
C22_ToFullRejectsBadChainID ==
    op = "ToFull" =>
        LET id == arg.ChainID
            i == ScanColon(id, 1)
            validCAIP2 == /\ Colons(id) = 1
                          /\ i > 1
                          /\ i < Len(id)
        IN  IF ColumnsCompactIsZero(arg) THEN err = NoErr /\ cols = ZeroColumns
            ELSE IF ~validCAIP2 THEN err = ErrInvalidFormat
            ELSE /\ err = NoErr
                 /\ cols.Namespace \o <<Colon>> \o cols.Reference = id
                 /\ cols.Address = arg.Address

\* ------------------------------------------------------------------------
\* C23: ToNative of a nil receiver is nil; with a parser registered for the
\* namespace of the receiver the result is what that parser makes of the
\* reference and the address of the receiver, and it is Equal to the
\* receiver; with no parser registered the result is the receiver, and the
\* receiver is as it was.
\* ------------------------------------------------------------------------
C23_ToNativeUpcast ==
    op = "ToNative" =>
        /\ acct = before
        /\ IF before.variant = "nil" THEN ret = NilAccount
           ELSE IF before.namespace \in DOMAIN registry
           THEN /\ ret = ParseAddress(registry[before.namespace],
                                      before.reference, before.address).val
                /\ Equal(ret, before)
           ELSE ret = newGenericUnchecked(before.namespace, before.reference, before.address)

\* the bytes a string over the base58 alphabet decodes to
DecodedBytes(s) == IF s \in KnownBase58 THEN DecodedBase58[s] ELSE Base58Decode(s)

\* `^[1-9A-HJ-NP-Za-km-z]{32,44}$` and 32 decoded bytes
LooseRule(s) ==
    /\ Len(s) >= 32
    /\ Len(s) <= 44
    /\ \A k \in 1..Len(s) : s[k] \in Base58Set
    /\ Len(DecodedBytes(s)) = SolanaAddressLength

\* "0", "O", "I" and "l"
NotBase58 == {48, 79, 73, 108}

\* C24: ValidateSolanaAddressLoose succeeds exactly on the strings of 32 to
\* 44 base58 characters that decode to 32 bytes, ValidateSolanaAddress
\* exactly on those of them whose bytes are an ed25519 point; every rejection
\* is ErrInvalidAddress, and a string shorter than 32 characters or with one
\* of "0", "O", "I", "l" is rejected by the format check, before any decoding.
C24_SolanaValidation ==
    op \in {"ValidateSolanaAddress", "ValidateSolanaAddressLoose"} =>
        /\ err \in {NoErr, ErrInvalidAddress}
        /\ op = "ValidateSolanaAddressLoose" => (err = NoErr <=> LooseRule(arg))
        /\ op = "ValidateSolanaAddress" =>
              /\ err = NoErr <=> (LooseRule(arg) /\ IsOnCurve(DecodedBytes(arg)))
              /\ err = NoErr => ValidateSolanaAddressLoose(arg).err = NoErr
        /\ (Len(arg) < 32 \/ \E k \in 1..Len(arg) : arg[k] \in NotBase58) =>
              /\ err = ErrInvalidAddress
              /\ got.at = "format"

\* the strict validation has rejected an address for being off the curve
\* which the loose one accepts
C24_Witness ==
    /\ op = "ValidateSolanaAddress"
    /\ arg = strSolTwo
    /\ err = ErrInvalidAddress
    /\ got.at = "curve"
    /\ ValidateSolanaAddressLoose(arg).err = NoErr

\* the pattern of a known network
NetworkPattern(network, s) ==
    CASE network = BitcoinMainnet -> bitcoinMainnetAddressRegex(s)
      [] network = BitcoinTestnet -> bitcoinTestnetAddressRegex(s)
      [] network = BitcoinCashMainnet -> bitcoinCashMainnetAddressRegex(s)
      [] network = LitecoinMainnet -> litecoinMainnetAddressRegex(s)
      [] network = LitecoinTestnet -> litecoinTestnetAddressRegex(s)
      [] network = DogecoinMainnet -> dogecoinMainnetAddressRegex(s)
      [] network = DogecoinTestnet -> dogecoinTestnetAddressRegex(s)
      [] network = DashMainnet -> dashMainnetAddressRegex(s)

\* C25: ValidateBIP122Address rejects the empty address on every network,
\* accepts on a known network exactly the addresses of that network's
\* pattern and on any other network exactly what ValidateBIP122AddressLoose
\* accepts, and every rejection is ErrInvalidAddress.
C25_BIP122Validation ==
    op = "ValidateBIP122Address" =>
        /\ err \in {NoErr, ErrInvalidAddress}
        /\ arg.address = EmptyString => err = ErrInvalidAddress
        /\ arg.network \in KnownBIP122Networks =>
              (err = NoErr <=> NetworkPattern(arg.network, arg.address))
        /\ arg.network \notin KnownBIP122Networks =>
              (err = NoErr <=> ValidateBIP122AddressLoose(arg.address) = NoErr)

\* a Litecoin address has been accepted on Litecoin mainnet that the loose
\* pattern does not take
C25_Witness ==
    /\ op = "ValidateBIP122Address"
    /\ arg.network = LitecoinMainnet
    /\ arg.address = <<108, 116, 99, 49>> \o Repeat(113, 39)
    /\ err = NoErr
    /\ ValidateBIP122AddressLoose(arg.address) = ErrInvalidAddress

\* "bc1", "tb1", "ltc1" and "tltc1": the prefixes of the segwit and taproot
\* forms
SegwitPrefixes ==
    { <<98, 99, 49>>, <<116, 98, 49>>, <<108, 116, 99, 49>>, <<116, 108, 116, 99, 49>> }

\* C28: an address in segwit or taproot form that ValidateBIP122Address
\* accepts for a known network is accepted by ValidateBIP122AddressLoose and
\* by ValidateBIP122Address for an unrecognized network.
C28_LooseCoversSegwit ==
    /\ op = "ValidateBIP122Address"
    /\ arg.network \in KnownBIP122Networks
    /\ err = NoErr
    /\ \E p \in SegwitPrefixes : HasPrefix(arg.address, p)
    => /\ ValidateBIP122AddressLoose(arg.address) = NoErr
       /\ ValidateBIP122Address(strAbc, arg.address) = NoErr

\* C26: whatever string Parse accepts, the String() of the AccountID it
\* returns is that string, character for character.
C26_ParseStringIsInput ==
    (op = "Parse" /\ err = NoErr) => String(acct) = arg

\* C27: the Reference() of an account made by NewEIP155, NewEIP155FromHex
\* or SetChainID is a string of 1 to 32 decimal digits.
C27_ReferenceIsDecimal ==
    LET made == IF op = "SetChainID" THEN ret ELSE acct
    IN  /\ op \in {"NewEIP155", "NewEIP155FromHex", "SetChainID"}
        /\ made.variant # "nil"
        => /\ Len(made.reference) \in 1..32
           /\ \A k \in 1..Len(made.reference) : made.reference[k] \in Digit

\* the typed fields of a agree with the strings of the GenericAccountID it
\* embeds
TypedViewsAgree(a) ==
    CASE a.variant = "eip155" ->
            /\ a.namespace = NamespaceEIP155
            /\ BigString(EIP155ChainID(a)) = a.reference
            /\ AddressHex(a.ethAddr) = a.address
      [] a.variant = "solana" ->
            /\ a.namespace = NamespaceSolana
            /\ PublicKeyString(a.pubkey) = a.address
      [] a.variant = "bip122" ->
            /\ a.namespace = NamespaceBIP122
            /\ NetworkString(a.network) = a.reference
      [] OTHER -> TRUE

\* C29: after any sequence of constructions, Parse, setters and inherited
\* decoders, the typed fields of a specialized account agree with its
\* namespace, reference and address: for eip155 the chain id and the 20-byte
\* address, for solana the public key, for bip122 the network.
C29_TypedViewsAgree ==
    /\ TypedViewsAgree(acct)
    /\ TypedViewsAgree(ret)

\* C30: for an account from Parse or a constructor, the three length fields
\* MarshalBinary writes are the lengths of namespace, reference and address,
\* and the output has the length its header gives.
C30_BinaryHeaderExact ==
    (op = "MarshalBinary" /\ acct.variant # "nil") =>
        /\ got[1] = Len(acct.namespace)
        /\ got[2] = Len(acct.reference)
        /\ 256 * got[3] + got[4] = Len(acct.address)
        /\ ~BinaryLengthMismatch(got)

====
